---- MODULE Spec2Model ----
(***************************************************************************)
(* Workflow definition validator of workflow-cluster.                      *)
(*                                                                         *)
(* The model follows src/src/lib/workflows/workflow-validator.ts (the      *)
(* library validator) and the validate-workflow script (src/unnamed/       *)
(* part_001).  Strings are TLA+ strings; a character is a string of        *)
(* length 1, read with SubSeq.  An optional value (a TypeScript            *)
(* `T | undefined`) is a sequence of length 0 or 1.                        *)
(***************************************************************************)
EXTENDS Integers, Naturals, Sequences, FiniteSets, TLC

VARIABLES
    doc,            \* the parsed document handed to validateWorkflowComplete
    registry,       \* the catalog getModuleRegistry() returns
    steps,          \* the step list handed to a single pass
    outputDisplay,  \* validateOutputDisplay's first argument (optional)
    lastStep,       \* validateOutputDisplay's second argument (optional)
    pc,             \* position of the running call
    checker,        \* which variable-reference checker is walking
    index,          \* forEach index of the variable-reference walk (0-based)
    declaredVars,   \* the walk's set of declared variable names
    errors,         \* the walk's error list so far
    result,         \* the value the finished call returned
    calls,          \* the finished calls so far, each [input, output]
    script,         \* which validate-workflow script is running
    content,        \* the text the script read from its file or stdin
    implementations,\* the implementation modules import() can find
    loaded,         \* the module paths import() was called with, in order
    exitCode,       \* the script's exit status, once it has ended
    maxAttempts,    \* retry's second argument
    delayMs,        \* retry's third argument
    attempt,        \* retry's loop counter
    lastError,      \* retry's last caught error (null at first)
    invocations,    \* how each invocation of retry's fn settled, in order
    sleeps,         \* the durations sleep was called with, in order
    items,          \* deduplicateByMultiple's items
    fields          \* deduplicateByMultiple's fields

\* the variables of the scripts and of repeated calls
runVars == <<calls, script, content, implementations, loaded, exitCode>>

\* the variables of the utility functions retry and deduplicateByMultiple
utilVars == <<maxAttempts, delayMs, attempt, lastError, invocations, sleeps,
              items, fields>>

vars == <<doc, registry, steps, outputDisplay, lastStep, pc, checker, index,
          declaredVars, errors, result, runVars, utilVars>>

-----------------------------------------------------------------------------
(* Bounds of the explored inputs.                                          *)

MaxSteps == 2
MaxPathSteps == 2
MaxVarSteps == 3
MaxColumns == 2
MaxCalls == 3
MaxRawSteps == 2
MaxDeepSteps == 2
MaxFormatErrors == 2
MaxAjvErrors == 2

-----------------------------------------------------------------------------
(* Optional values.                                                        *)

None == <<>>
Some(x) == <<x>>
IsSome(o) == Len(o) > 0
Get(o) == o[1]

-----------------------------------------------------------------------------
(* Strings.                                                                *)

CharAt(s, i) == SubSeq(s, i, i)

LowerChars == {"a","b","c","d","e","f","g","h","i","j","k","l","m",
               "n","o","p","q","r","s","t","u","v","w","x","y","z"}
UpperChars == {"A","B","C","D","E","F","G","H","I","J","K","L","M",
               "N","O","P","Q","R","S","T","U","V","W","X","Y","Z"}
DigitChars == {"0","1","2","3","4","5","6","7","8","9"}

\* \w of a JavaScript regular expression: [A-Za-z0-9_]
IsWordChar(c) == c \in LowerChars \cup UpperChars \cup DigitChars \cup {"_"}

\* \d of a JavaScript regular expression
IsDigitChar(c) == c \in DigitChars

\* String.prototype.includes: sub occurs in s at some position
StrIncludes(s, sub) ==
    \E i \in 1..(Len(s) - Len(sub) + 1) : SubSeq(s, i, i + Len(sub) - 1) = sub

\* String.prototype.startsWith at position p (1-based)
StartsWithAt(s, p, sub) ==
    /\ p + Len(sub) - 1 <= Len(s)
    /\ SubSeq(s, p, p + Len(sub) - 1) = sub

RECURSIVE SplitFrom(_, _, _, _)
\* segments of s from position p on, cur being the segment read so far
SplitFrom(s, sep, p, cur) ==
    IF p > Len(s) THEN <<cur>>
    ELSE IF CharAt(s, p) = sep
         THEN <<cur>> \o SplitFrom(s, sep, p + 1, "")
         ELSE SplitFrom(s, sep, p + 1, cur \o CharAt(s, p))

\* String.prototype.split with a one-character separator
StrSplit(s, sep) == SplitFrom(s, sep, 1, "")

RECURSIVE StrJoin(_, _)
\* Array.prototype.join
StrJoin(seq, sep) ==
    IF Len(seq) = 0 THEN ""
    ELSE IF Len(seq) = 1 THEN seq[1]
    ELSE seq[1] \o sep \o StrJoin(Tail(seq), sep)

\* an array element that may be missing, as a template literal prints it
ElemOrUndefined(seq, i) == IF i <= Len(seq) THEN seq[i] ELSE "undefined"

-----------------------------------------------------------------------------
(* The template-reference regular expressions.                             *)

RECURSIVE SkipWord(_, _)
\* the position after the longest run of \w characters starting at p
SkipWord(s, p) ==
    IF p <= Len(s) /\ IsWordChar(CharAt(s, p)) THEN SkipWord(s, p + 1) ELSE p

RECURSIVE SkipDigits(_, _)
\* the position after the longest run of \d characters starting at p
SkipDigits(s, p) ==
    IF p <= Len(s) /\ IsDigitChar(CharAt(s, p)) THEN SkipDigits(s, p + 1) ELSE p

RECURSIVE SkipProps(_, _)
\* (?:\.\w+)* matched greedily from p: the position after it
SkipProps(s, p) ==
    IF StartsWithAt(s, p, ".") /\ SkipWord(s, p + 1) > p + 1
    THEN SkipProps(s, SkipWord(s, p + 1))
    ELSE p

RECURSIVE SkipIndices(_, _)
\* (?:\[\d+\])* matched greedily from p: the position after it
SkipIndices(s, p) ==
    IF /\ StartsWithAt(s, p, "[")
       /\ SkipDigits(s, p + 1) > p + 1
       /\ StartsWithAt(s, SkipDigits(s, p + 1), "]")
    THEN SkipIndices(s, SkipDigits(s, p + 1) + 1)
    ELSE p

\* /\{\{(\w+)(?:\.\w+)*(?:\[\d+\])*\}\}/ tried at position p: the position
\* after the match, or 0 when it does not match there.  No repetition can
\* give back characters to a later part (the parts' first characters are
\* disjoint), so the greedy scan is the whole search.
MatchRefAt(s, p) ==
    IF ~StartsWithAt(s, p, "{{") THEN 0
    ELSE LET w == SkipWord(s, p + 2)
         IN  IF w = p + 2 THEN 0
             ELSE LET e == SkipIndices(s, SkipProps(s, w))
                  IN  IF StartsWithAt(s, e, "}}") THEN e + 2 ELSE 0

RECURSIVE MatchAllRefsFrom(_, _)
\* the matches of the global regular expression from position p on
MatchAllRefsFrom(s, p) ==
    IF p > Len(s) THEN <<>>
    ELSE LET e == MatchRefAt(s, p)
         IN  IF e > 0
             THEN <<SubSeq(s, p, e - 1)>> \o MatchAllRefsFrom(s, e)
             ELSE MatchAllRefsFrom(s, p + 1)

\* inputsStr.match(/\{\{(\w+)(?:\.\w+)*(?:\[\d+\])*\}\}/g) || []
MatchAllRefs(s) == MatchAllRefsFrom(s, 1)

RECURSIVE FirstVarNameFrom(_, _)
\* ref.match(/\{\{(\w+)/)?.[1] searched from position p on
FirstVarNameFrom(ref, p) ==
    IF p > Len(ref) THEN None
    ELSE IF StartsWithAt(ref, p, "{{") /\ SkipWord(ref, p + 2) > p + 2
         THEN Some(SubSeq(ref, p + 2, SkipWord(ref, p + 2) - 1))
         ELSE FirstVarNameFrom(ref, p + 1)

\* ref.match(/\{\{(\w+)/)?.[1]: the captured name, or None for undefined
FirstVarName(ref) == FirstVarNameFrom(ref, 1)

-----------------------------------------------------------------------------
(* JSON.stringify of a step's inputs: an object given as a sequence of     *)
(* members.  A member is <<key, value>> for a string value,                *)
(* <<key, "object", members>> for a nested object and                      *)
(* <<key, "array", strings>> for an array of strings.                      *)

RECURSIVE JsonEscape(_)
\* the characters of a JSON string literal: " and \ are escaped
JsonEscape(s) ==
    IF Len(s) = 0 THEN ""
    ELSE (IF Head(s) \in {"\"", "\\"} THEN "\\" \o Head(s) ELSE Head(s))
         \o JsonEscape(Tail(s))

JsonString(s) == "\"" \o JsonEscape(s) \o "\""

RECURSIVE JsonMembers(_)
JsonMembers(members) ==
    IF Len(members) = 0 THEN <<>>
    ELSE LET f == members[1]
             value ==
                 IF Len(f) = 2 THEN JsonString(f[2])
                 ELSE IF f[2] = "object"
                      THEN "{" \o StrJoin(JsonMembers(f[3]), ",") \o "}"
                      ELSE "[" \o StrJoin([i \in 1..Len(f[3]) |->
                                              JsonString(f[3][i])], ",")
                               \o "]"
         IN  <<JsonString(f[1]) \o ":" \o value>> \o JsonMembers(Tail(members))

JsonStringify(members) == "{" \o StrJoin(JsonMembers(members), ",") \o "}"

-----------------------------------------------------------------------------
(* Diagnostics.  A ValidationError is a record; `params` and `suggestion`  *)
(* are optional.  A ValidationResult is [valid, errors].                   *)

ValidationError(path, message, keyword, params, suggestion) ==
    [path |-> path, message |-> message, keyword |-> keyword,
     params |-> params, suggestion |-> suggestion]

ValidationResult(valid, errs) == [valid |-> valid, errors |-> errs]

RECURSIVE ParamValues(_, _)
\* error.params?.<key>: the values under key (a scalar is one value), or
\* None when params has no such key
ParamValues(params, key) ==
    IF Len(params) = 0 THEN None
    ELSE IF params[1][1] = key THEN Some(params[1][2])
    ELSE ParamValues(Tail(params), key)

\* ${error.params?.<key>} inside a template literal
ParamStr(params, key) ==
    IF IsSome(ParamValues(params, key))
    THEN StrJoin(Get(ParamValues(params, key)), ",")
    ELSE "undefined"

\* the two patterns formatAjvErrors knows a suggestion for
ModulePathPattern == "^[a-z-]+\\.[a-z-]+\\.[a-zA-Z]+$"
TemplatePattern == "^\\{\\{[^}]+\\}\\}$"

\* one AJV ErrorObject [keyword, instancePath, message, params, dataType]
\* turned into a ValidationError
formatAjvError(error) ==
    LET path == IF error.instancePath = "" THEN "root" ELSE error.instancePath
        base == IF IsSome(error.message) /\ Get(error.message) # ""
                THEN Get(error.message) ELSE "Validation failed"
        P(key) == ParamStr(error.params, key)
        message ==
            CASE error.keyword = "required" ->
                   "Missing required field: " \o P("missingProperty")
              [] error.keyword = "type" ->
                   "Expected type \"" \o P("type") \o "\" but got \""
                       \o error.dataType \o "\""
              [] error.keyword = "enum" ->
                   "Value must be one of: "
                       \o (IF IsSome(ParamValues(error.params, "allowedValues"))
                           THEN StrJoin(Get(ParamValues(error.params,
                                                        "allowedValues")), ", ")
                           ELSE "undefined")
              [] error.keyword = "pattern" ->
                   "Value does not match pattern: " \o P("pattern")
              [] error.keyword = "minItems" ->
                   "Array must have at least " \o P("limit") \o " items"
              [] error.keyword = "minLength" ->
                   "String must be at least " \o P("limit") \o " characters"
              [] error.keyword = "maxLength" ->
                   "String must be at most " \o P("limit") \o " characters"
              [] error.keyword = "const" ->
                   "Value must be exactly: " \o P("allowedValue")
              [] OTHER -> base
        suggestion ==
            CASE error.keyword = "required" ->
                   Some("Add \"" \o P("missingProperty") \o "\" to the object")
              [] error.keyword = "type" ->
                   Some("Change value to type " \o P("type"))
              [] error.keyword = "enum" -> Some("Use one of the allowed values")
              [] error.keyword = "pattern" ->
                   IF P("pattern") = ModulePathPattern
                   THEN Some("Use format: category.module.function (e.g., \"ai.openai.generateText\")")
                   ELSE IF P("pattern") = TemplatePattern
                   THEN Some("Use format: {{variableName}} (e.g., \"{{result}}\")")
                   ELSE None
              [] error.keyword = "minItems" -> Some("Add more items to the array")
              [] error.keyword = "minLength" -> Some("Use a longer string")
              [] error.keyword = "maxLength" -> Some("Use a shorter string")
              [] error.keyword = "const" ->
                   Some("Change to \"" \o P("allowedValue") \o "\"")
              [] OTHER -> None
    IN  ValidationError(path, message, error.keyword, Some(error.params),
                        suggestion)

\* fault variant: only the first violation is turned into a diagnostic
formatAjvErrorsFirstOnly(errs) ==
    IF ~IsSome(errs) \/ Len(Get(errs)) = 0 THEN <<>>
    ELSE <<formatAjvError(Get(errs)[1])>>

\* formatAjvErrors: errors is None for null/undefined, else Some(list)
formatAjvErrors(errs) ==
    IF ~IsSome(errs) \/ Len(Get(errs)) = 0 THEN <<>>
    ELSE [i \in 1..Len(Get(errs)) |-> formatAjvError(Get(errs)[i])]

-----------------------------------------------------------------------------
(* The compiled AJV validators.  The schemas (./workflow-schema) are not   *)
(* among the sources; what they require is taken from the specification:   *)
(* required fields, the capability-path pattern of a step's module, and    *)
(* the required configuration key of the cron, chat and chat-input         *)
(* triggers.  AJV runs with allErrors, so every violation is listed.       *)

AjvError(keyword, instancePath, message, params) ==
    [keyword |-> keyword, instancePath |-> instancePath,
     message |-> Some(message), params |-> params, dataType |-> "undefined"]

RequiredError(instancePath, property) ==
    AjvError("required", instancePath,
             "must have required property '" \o property \o "'",
             << <<"missingProperty", <<property>>>> >>)

RECURSIVE AllCharsIn(_, _)
AllCharsIn(s, chars) ==
    Len(s) = 0 \/ (Head(s) \in chars /\ AllCharsIn(Tail(s), chars))

\* ^[a-z-]+\.[a-z-]+\.[a-zA-Z]+$
MatchesModulePathPattern(s) ==
    LET parts == StrSplit(s, ".")
    IN  /\ Len(parts) = 3
        /\ \A i \in 1..3 : Len(parts[i]) > 0
        /\ AllCharsIn(parts[1], LowerChars \cup {"-"})
        /\ AllCharsIn(parts[2], LowerChars \cup {"-"})
        /\ AllCharsIn(parts[3], LowerChars \cup UpperChars)

\* a violation of the type keyword; dataType is typeof of the value
AjvTypeError(instancePath, type, dataType) ==
    [keyword |-> "type", instancePath |-> instancePath,
     message |-> Some("must be " \o type),
     params |-> << <<"type", <<type>>>> >>, dataType |-> dataType]

\* a property of a step the schema requires and the step lacks
StepRequiredErrors(step, i) ==
    LET Missing(property) ==
            IF property \in DOMAIN step THEN <<>>
            ELSE <<RequiredError("/config/steps/" \o ToString(i), property)>>
    IN  Missing("id") \o Missing("module") \o Missing("inputs")

RECURSIVE StepSchemaErrors(_, _)
\* the violations of the steps from 0-based position i on
StepSchemaErrors(stepList, i) ==
    IF i >= Len(stepList) THEN <<>>
    ELSE StepRequiredErrors(stepList[i + 1], i)
         \o (IF \/ "module" \notin DOMAIN stepList[i + 1]
                 \/ MatchesModulePathPattern(stepList[i + 1].module)
             THEN <<>>
             ELSE <<AjvError("pattern",
                             "/config/steps/" \o ToString(i) \o "/module",
                             "must match pattern \"" \o ModulePathPattern \o "\"",
                             << <<"pattern", <<ModulePathPattern>>>> >>)>>)
         \o StepSchemaErrors(stepList, i + 1)

\* validateWorkflow.errors after validateWorkflow(workflow).  A document
\* that is no object is a record [kind, typeof].
workflowSchemaErrors(workflow) ==
    IF "kind" \in DOMAIN workflow
    THEN <<AjvTypeError("", "object", workflow.typeof)>>
    ELSE (IF IsSome(workflow.name) THEN <<>> ELSE <<RequiredError("", "name")>>)
         \o (IF "config" \notin DOMAIN workflow
             THEN <<RequiredError("", "config")>>
             ELSE IF IsSome(workflow.config.steps)
             THEN StepSchemaErrors(Get(workflow.config.steps), 0)
             ELSE <<RequiredError("/config", "steps")>>)

\* the key each trigger sub-schema requires in trigger.config
TriggerRequiredKey(type) ==
    CASE type = "chat-input" -> "fields"
      [] type = "cron" -> "schedule"
      [] type = "chat" -> "inputVariable"

\* triggerValidator.errors after triggerValidator(trigger.config)
triggerSchemaErrors(type, config) ==
    IF TriggerRequiredKey(type) \in config THEN <<>>
    ELSE <<RequiredError("", TriggerRequiredKey(type))>>

-----------------------------------------------------------------------------
(* The passes of the library validator.                                    *)

validateWorkflowStructure(workflow) ==
    LET ajvErrors == workflowSchemaErrors(workflow)
    IN  IF Len(ajvErrors) > 0
        THEN ValidationResult(FALSE, formatAjvErrors(Some(ajvErrors)))
        ELSE ValidationResult(TRUE, <<>>)

validateTrigger(trigger) ==
    IF trigger.type \notin {"chat-input", "cron", "chat"}
    THEN ValidationResult(TRUE, <<>>)
    ELSE LET ajvErrors == triggerSchemaErrors(trigger.type, trigger.config)
         IN  IF Len(ajvErrors) > 0
             THEN ValidationResult(FALSE, formatAjvErrors(Some(ajvErrors)))
             ELSE ValidationResult(TRUE, <<>>)

\* the elements of an array
Range(seq) == { seq[i] : i \in 1..Len(seq) }

\* the set validateModulePaths builds from the registry
validPaths(reg) ==
    UNION { UNION { { c.name \o "." \o m.name \o "." \o f.name :
                      f \in Range(m.functions) } :
                    m \in Range(c.modules) } :
            c \in Range(reg) }

RECURSIVE FindByName(_, _)
\* Array.prototype.find(x => x.name === name): the first such element
FindByName(seq, name) ==
    IF Len(seq) = 0 THEN None
    ELSE IF Head(seq).name = name THEN Some(Head(seq))
    ELSE FindByName(Tail(seq), name)

\* seq.map(x => x.name).join(', ')
NamesOf(seq) == StrJoin([i \in 1..Len(seq) |-> seq[i].name], ", ")

\* fault variant: a function that is not found is reported like a module
\* that is not found
moduleSuggestionNoFunctions(module, reg) ==
    LET parts == StrSplit(module, ".")
        categoryName == ElemOrUndefined(parts, 1)
        moduleName == ElemOrUndefined(parts, 2)
        category == FindByName(reg, categoryName)
    IN  IF ~IsSome(category)
        THEN "Category \"" \o categoryName \o "\" not found. Available: "
                 \o NamesOf(reg)
        ELSE "Module \"" \o moduleName \o "\" not found in category \""
                 \o categoryName \o "\". Available: "
                 \o NamesOf(Get(category).modules)

\* the suggestion validateModulePaths computes for a path that is not valid
moduleSuggestion(module, reg) ==
    LET parts == StrSplit(module, ".")
        categoryName == ElemOrUndefined(parts, 1)
        moduleName == ElemOrUndefined(parts, 2)
        category == FindByName(reg, categoryName)
    IN  IF ~IsSome(category)
        THEN "Category \"" \o categoryName \o "\" not found. Available: "
                 \o NamesOf(reg)
        ELSE LET foundModule == FindByName(Get(category).modules, moduleName)
             IN  IF ~IsSome(foundModule)
                 THEN "Module \"" \o moduleName \o "\" not found in category \""
                          \o categoryName \o "\". Available: "
                          \o NamesOf(Get(category).modules)
                 ELSE "Function not found in " \o categoryName \o "."
                          \o moduleName \o ". Available: "
                          \o NamesOf(Get(foundModule).functions)

\* the error validateModulePaths pushes for a step whose path is not valid
moduleError(step, reg) ==
    ValidationError("/config/steps/" \o step.id \o "/module",
                    "Module path \"" \o step.module \o "\" not found in registry",
                    "module-exists", None,
                    Some(moduleSuggestion(step.module, reg)))

RECURSIVE modulePathErrorsFirstOnly(_, _, _)
\* fault variant: the loop stops at the first path that is not valid
modulePathErrorsFirstOnly(stepList, reg, valid) ==
    IF Len(stepList) = 0 THEN <<>>
    ELSE IF Head(stepList).module \notin valid
         THEN <<moduleError(Head(stepList), reg)>>
         ELSE modulePathErrorsFirstOnly(Tail(stepList), reg, valid)

RECURSIVE modulePathErrors(_, _, _)
\* steps.forEach of validateModulePaths, valid being the set validPaths
modulePathErrors(stepList, reg, valid) ==
    IF Len(stepList) = 0 THEN <<>>
    ELSE (IF Head(stepList).module \notin valid
          THEN <<moduleError(Head(stepList), reg)>> ELSE <<>>)
         \o modulePathErrors(Tail(stepList), reg, valid)

validateModulePaths(stepList, reg) ==
    LET errs == modulePathErrors(stepList, reg, validPaths(reg))
    IN  ValidationResult(Len(errs) = 0, errs)

\* the built-in variables of the library checker
BuiltinVars == {"user", "trigger"}

\* the error pushed for a reference to an undeclared variable
variableError(idx, varName) ==
    ValidationError("/config/steps/" \o ToString(idx) \o "/inputs",
                    "Reference to undeclared variable: " \o varName,
                    "variable-declared", None,
                    Some("Declare \"" \o varName
                         \o "\" in a previous step using \"outputAs\", or check for typos"))

\* whether the library checker flags a reference
refUndeclared(ref, declared) ==
    /\ IsSome(FirstVarName(ref))
    /\ Get(FirstVarName(ref)) # ""
    /\ Get(FirstVarName(ref)) \notin declared

\* fault variant: a repeated reference to a name already reported for the
\* step is not reported again
refErrorsMerged(refs, idx, declared) ==
    LET pushed[n \in 0..Len(refs)] ==
            IF n = 0 THEN <<>>
            ELSE pushed[n - 1]
                 \o (IF /\ refUndeclared(refs[n], declared)
                        /\ \A m \in 1..(n - 1) :
                               FirstVarName(refs[m]) # FirstVarName(refs[n])
                     THEN <<variableError(idx, Get(FirstVarName(refs[n])))>>
                     ELSE <<>>)
    IN  pushed[Len(refs)]

RECURSIVE refErrors(_, _, _)
\* varRefs.forEach of validateVariableReferences
refErrors(refs, idx, declared) ==
    IF Len(refs) = 0 THEN <<>>
    ELSE (IF refUndeclared(Head(refs), declared)
          THEN <<variableError(idx, Get(FirstVarName(Head(refs))))>>
          ELSE <<>>)
         \o refErrors(Tail(refs), idx, declared)

\* fault variant: the step's own outputAs is declared before its inputs are
\* checked
stepRefErrorsOwnOutput(step, idx, declared) ==
    refErrors(MatchAllRefs(JsonStringify(step.inputs)), idx,
              IF IsSome(step.outputAs) /\ Get(step.outputAs) # ""
              THEN declared \cup {Get(step.outputAs)}
              ELSE declared)

\* the errors one step of the walk pushes
stepRefErrors(step, idx, declared) ==
    refErrors(MatchAllRefs(JsonStringify(step.inputs)), idx, declared)

\* fault variant: a new binding replaces the earlier ones
declareOutputReplacing(step, declared) ==
    IF IsSome(step.outputAs) /\ Get(step.outputAs) # ""
    THEN {"user", "trigger", Get(step.outputAs)}
    ELSE declared

\* fault variant: an outputAs that is the empty string is added as well
declareOutputEmptyToo(step, declared) ==
    IF IsSome(step.outputAs)
    THEN declared \cup {Get(step.outputAs)}
    ELSE declared

\* the declared set after a step: a truthy outputAs is added
declareOutput(step, declared) ==
    IF IsSome(step.outputAs) /\ Get(step.outputAs) # ""
    THEN declared \cup {Get(step.outputAs)}
    ELSE declared

RECURSIVE variableWalk(_, _, _)
\* steps.forEach of validateVariableReferences from 0-based index idx on
variableWalk(stepList, idx, declared) ==
    IF idx >= Len(stepList) THEN <<>>
    ELSE stepRefErrors(stepList[idx + 1], idx, declared)
         \o variableWalk(stepList, idx + 1,
                         declareOutput(stepList[idx + 1], declared))

\* fault variant: the walk starts without the built-ins
validateVariableReferencesNoBuiltins(stepList) ==
    LET errs == variableWalk(stepList, 0, {})
    IN  ValidationResult(Len(errs) = 0, errs)

validateVariableReferences(stepList) ==
    LET errs == variableWalk(stepList, 0, BuiltinVars)
    IN  ValidationResult(Len(errs) = 0, errs)

\* the fragments validateOutputDisplay takes for single-value producers
singleValueModules ==
    <<"average", "sum", "count", "min", "max", "hashSHA256", "generateUUID",
      "now", "toISO">>

tableColumnsError ==
    ValidationError("/config/outputDisplay/columns",
                    "Table display requires columns array", "table-columns",
                    None,
                    Some("Add columns array with at least one column definition"))

outputTypeMismatchError ==
    ValidationError("/config/outputDisplay/type",
                    "Last step likely returns single value, but output display is \"table\" (expects array)",
                    "output-type-mismatch", None,
                    Some("Change outputDisplay.type to \"text\" or \"json\", or ensure last step returns an array"))

\* fault variant: an empty columns array passes the table-columns check
outputDisplayErrorsEmptyColumns(od, last) ==
    (IF od.type = "table" /\ ~IsSome(od.columns)
     THEN <<tableColumnsError>> ELSE <<>>)
    \o (IF /\ od.type = "table"
           /\ \E k \in 1..Len(singleValueModules) :
                  StrIncludes(last.module, singleValueModules[k])
        THEN <<outputTypeMismatchError>> ELSE <<>>)

\* fault variant: the type-mismatch check is the else branch of the
\* table-columns check
outputDisplayErrorsElseIf(od, last) ==
    IF od.type = "table" /\ (~IsSome(od.columns) \/ Len(Get(od.columns)) = 0)
    THEN <<tableColumnsError>>
    ELSE IF /\ od.type = "table"
            /\ \E k \in 1..Len(singleValueModules) :
                   StrIncludes(last.module, singleValueModules[k])
         THEN <<outputTypeMismatchError>> ELSE <<>>

\* fault variant: the type-mismatch check runs before the table-columns
\* check
outputDisplayErrorsMismatchFirst(od, last) ==
    (IF /\ od.type = "table"
        /\ \E k \in 1..Len(singleValueModules) :
               StrIncludes(last.module, singleValueModules[k])
     THEN <<outputTypeMismatchError>> ELSE <<>>)
    \o (IF od.type = "table" /\ (~IsSome(od.columns) \/ Len(Get(od.columns)) = 0)
        THEN <<tableColumnsError>> ELSE <<>>)

\* the errors validateOutputDisplay collects when both arguments are given
outputDisplayErrors(od, last) ==
    (IF od.type = "table" /\ (~IsSome(od.columns) \/ Len(Get(od.columns)) = 0)
     THEN <<tableColumnsError>> ELSE <<>>)
    \o (IF /\ od.type = "table"
           /\ \E k \in 1..Len(singleValueModules) :
                  StrIncludes(last.module, singleValueModules[k])
        THEN <<outputTypeMismatchError>> ELSE <<>>)

\* fault variant: only an absent outputDisplay makes the call a no-op; the
\* table-columns check runs without a last step
validateOutputDisplayNoLastStepGuard(od, last) ==
    IF ~IsSome(od) THEN ValidationResult(TRUE, <<>>)
    ELSE LET errs == IF IsSome(last)
                     THEN outputDisplayErrors(Get(od), Get(last))
                     ELSE IF /\ Get(od).type = "table"
                             /\ (~IsSome(Get(od).columns)
                                 \/ Len(Get(Get(od).columns)) = 0)
                          THEN <<tableColumnsError>> ELSE <<>>
         IN  ValidationResult(Len(errs) = 0, errs)

validateOutputDisplay(od, last) ==
    IF ~IsSome(od) \/ ~IsSome(last) THEN ValidationResult(TRUE, <<>>)
    ELSE LET errs == outputDisplayErrors(Get(od), Get(last))
         IN  ValidationResult(Len(errs) = 0, errs)

\* steps[steps.length - 1]: undefined for an empty list
LastOf(stepList) ==
    IF Len(stepList) = 0 THEN None ELSE Some(stepList[Len(stepList)])

\* fault variant: the variable-reference pass reports before the
\* capability-path pass
completeErrorsVariablesFirst(w, reg) ==
    (IF IsSome(w.trigger) THEN validateTrigger(Get(w.trigger)).errors ELSE <<>>)
    \o validateVariableReferences(Get(w.config.steps)).errors
    \o validateModulePaths(Get(w.config.steps), reg).errors
    \o validateOutputDisplay(w.config.outputDisplay,
                             LastOf(Get(w.config.steps))).errors

\* the errors validateWorkflowComplete collects once the structure is valid
completeErrors(w, reg) ==
    (IF IsSome(w.trigger) THEN validateTrigger(Get(w.trigger)).errors ELSE <<>>)
    \o validateModulePaths(Get(w.config.steps), reg).errors
    \o validateVariableReferences(Get(w.config.steps)).errors
    \o validateOutputDisplay(w.config.outputDisplay,
                             LastOf(Get(w.config.steps))).errors

\* fault variant: the structural pass is no gate, the later passes run on
\* a document it rejected
validateWorkflowCompleteNoGate(workflow, reg) ==
    LET structureResult == validateWorkflowStructure(workflow)
    IN  IF ~IsSome(workflow.config.steps) THEN structureResult
        ELSE LET allErrors == structureResult.errors
                                  \o completeErrors(workflow, reg)
             IN  ValidationResult(Len(allErrors) = 0, allErrors)

\* fault variant: a failed trigger check returns at once, like the
\* structural pass
validateWorkflowCompleteTriggerGate(workflow, reg) ==
    LET structureResult == validateWorkflowStructure(workflow)
    IN  IF ~structureResult.valid THEN structureResult
        ELSE IF IsSome(workflow.trigger)
                /\ ~validateTrigger(Get(workflow.trigger)).valid
        THEN validateTrigger(Get(workflow.trigger))
        ELSE LET allErrors == completeErrors(workflow, reg)
             IN  ValidationResult(Len(allErrors) = 0, allErrors)

validateWorkflowComplete(workflow, reg) ==
    LET structureResult == validateWorkflowStructure(workflow)
    IN  IF ~structureResult.valid THEN structureResult
        ELSE LET allErrors == completeErrors(workflow, reg)
             IN  ValidationResult(Len(allErrors) = 0, allErrors)

-----------------------------------------------------------------------------
(* The validate-workflow script's variable-reference checker.              *)

scriptVariableError(idx, stepId, varName) ==
    "Step " \o ToString(idx + 1) \o " (" \o stepId
        \o "): References undeclared variable \"" \o varName \o "\""

\* whether the script's checker flags a reference
scriptRefUndeclared(ref, declared) ==
    /\ IsSome(FirstVarName(ref))
    /\ Get(FirstVarName(ref)) # ""
    /\ Get(FirstVarName(ref)) \notin declared
    /\ Get(FirstVarName(ref)) # "user"

RECURSIVE scriptRefErrors(_, _, _, _)
scriptRefErrors(refs, idx, stepId, declared) ==
    IF Len(refs) = 0 THEN <<>>
    ELSE (IF scriptRefUndeclared(Head(refs), declared)
          THEN <<scriptVariableError(idx, stepId,
                                     Get(FirstVarName(Head(refs))))>>
          ELSE <<>>)
         \o scriptRefErrors(Tail(refs), idx, stepId, declared)

scriptStepRefErrors(step, idx, declared) ==
    scriptRefErrors(MatchAllRefs(JsonStringify(step.inputs)), idx, step.id,
                    declared)

-----------------------------------------------------------------------------
(* Inputs.                                                                 *)

Function(name) == [name |-> name]
Module(name, functions) == [name |-> name, functions |-> functions]
Category(name, modules) == [name |-> name, modules |-> modules]

\* a catalog such as getModuleRegistry() returns
DefaultRegistry ==
    << Category("ai",
          << Module("openai", <<Function("generateText"), Function("chat")>>) >>),
       Category("utilities",
          << Module("math", <<Function("count"), Function("sum")>>),
             Module("datetime", <<Function("now")>>) >>) >>

\* a catalog with a category without modules and a module without functions
SparseRegistry ==
    << Category("ai", <<>>),
       Category("social", << Module("twitter", <<>>) >>) >>

RegistryPool == { <<>>, DefaultRegistry, SparseRegistry }

Step(id, module, inputs, outputAs) ==
    [id |-> id, module |-> module, inputs |-> inputs, outputAs |-> outputAs]

\* the members of a list get the ids s1, s2, ...
WithIds(list) ==
    [i \in 1..Len(list) |->
        Step("s" \o ToString(i), list[i].module, list[i].inputs,
             list[i].outputAs)]

ListsOf(pool, maxLen) == UNION { [1..n -> pool] : n \in 0..maxLen }

PlainInputs == << <<"text", "hello">> >>

PathPool ==
    { "ai.openai.generateText", "ai.openai.nope", "ai.nope.generateText",
      "zz.openai.generateText", "ai", "ai.openai", "",
      "ai.openai.generateText.extra", "social.twitter.post",
      "utilities.math.count" }

PathSteps == { Step("", m, PlainInputs, None) : m \in PathPool }

InputPool ==
    { PlainInputs,
      << <<"p", "{{b.c}} and {{a[0]}}">> >>,
      << <<"p", "{{user.id}}">>, <<"q", "{{trigger.x}}">> >> }

OutputAsPool == { None, Some("a"), Some("b") }

VarSteps ==
    { Step("", "ai.openai.generateText", i, o) :
        i \in InputPool, o \in OutputAsPool }

Column(n) == [key |-> "k" \o ToString(n), label |-> "L" \o ToString(n)]

ColumnsPool ==
    { None } \cup { Some([i \in 1..n |-> Column(i)]) : n \in 0..MaxColumns }

OutputDisplayPool ==
    { None } \cup
    { Some([type |-> t, columns |-> c]) :
        t \in {"text", "json", "table"}, c \in ColumnsPool }

LastStepPool ==
    { None } \cup
    { Some([id |-> "s1", module |-> m]) :
        m \in { "ai.openai.generateText", "utilities.math.count",
                "utilities.math.sum", "utilities.datetime.now",
                "utilities.datetime.toISO", "accounting.ledger.list",
                "utilities.crypto.hashSHA256", "data.stats.maximum",
                "social.twitter.post" } }

\* steps of a whole document: a producer, a consumer of a scalar-producing
\* capability, a step that is wrong for the capability and the dataflow
\* passes, a step whose path is not of the schema's pattern, a consumer
\* of a built-in, and a scalar-producing producer
DocSteps ==
    { Step("", "ai.openai.generateText", PlainInputs, Some("r")),
      Step("", "utilities.math.count", << <<"p", "{{r}}">> >>, None),
      Step("", "zz.nope.fn", << <<"p", "{{x}}">> >>, None),
      Step("", "Ai.openai", << <<"p", "{{y}}">> >>, None),
      Step("", "ai.openai.chat", << <<"p", "{{user.id}}">> >>, None),
      Step("", "utilities.datetime.now", PlainInputs, Some("t")) }

Trigger(type, config) == [type |-> type, config |-> config]

TriggerPool ==
    { None, Some(Trigger("manual", {})), Some(Trigger("cron", {})),
      Some(Trigger("cron", {"schedule"})), Some(Trigger("chat", {})),
      Some(Trigger("chat-input", {})) }

DocOutputDisplayPool ==
    { None, Some([type |-> "text", columns |-> None]),
      Some([type |-> "table", columns |-> None]),
      Some([type |-> "table", columns |-> Some(<<Column(1)>>)]) }

Workflow(name, trigger, stepList, od) ==
    [name |-> name, trigger |-> trigger,
     config |-> [steps |-> stepList, outputDisplay |-> od]]

DocPool ==
    { Workflow(n, t, st, od) :
        n \in { None, Some("wf") }, t \in TriggerPool,
        st \in { None } \cup { Some(WithIds(l)) : l \in ListsOf(DocSteps, MaxSteps) },
        od \in DocOutputDisplayPool }

\* the values of the variables a specification does not use
NoDoc == Workflow(None, None, None, None)
NoResult == ValidationResult(TRUE, <<>>)
NoContent == [text |-> "", isYaml |-> FALSE, parsed |-> None]
NoUtil ==
    /\ maxAttempts = 0
    /\ delayMs = 0
    /\ attempt = 0
    /\ lastError = None
    /\ invocations = <<>>
    /\ sleeps = <<>>
    /\ items = <<>>
    /\ fields = <<>>

NoRun ==
    /\ NoUtil
    /\ calls = <<>>
    /\ script = "none"
    /\ content = NoContent
    /\ implementations = <<>>
    /\ loaded = <<>>
    /\ exitCode = None

-----------------------------------------------------------------------------
(* validateWorkflowComplete called on a document.                          *)

Init ==
    /\ doc \in DocPool
    /\ registry = DefaultRegistry
    /\ steps = <<>>
    /\ outputDisplay = None
    /\ lastStep = None
    /\ pc = "idle"
    /\ checker = "none"
    /\ index = 0
    /\ declaredVars = {}
    /\ errors = <<>>
    /\ result = NoResult
    /\ NoRun

CallValidateWorkflowComplete ==
    /\ pc = "idle"
    /\ result' = validateWorkflowComplete(doc, registry)
    /\ pc' = "done"
    /\ UNCHANGED <<utilVars, runVars, doc, registry, steps, outputDisplay, lastStep, checker,
                   index, declaredVars, errors>>

Next == CallValidateWorkflowComplete

Spec == Init /\ [][Next]_vars

-----------------------------------------------------------------------------
(* validateModulePaths called on a step list, for a catalog.               *)

InitPaths ==
    /\ doc = NoDoc
    /\ registry \in RegistryPool
    /\ steps \in { WithIds(l) : l \in ListsOf(PathSteps, MaxPathSteps) }
    /\ outputDisplay = None
    /\ lastStep = None
    /\ pc = "idle"
    /\ checker = "none"
    /\ index = 0
    /\ declaredVars = {}
    /\ errors = <<>>
    /\ result = NoResult
    /\ NoRun

CallValidateModulePaths ==
    /\ pc = "idle"
    /\ result' = validateModulePaths(steps, registry)
    /\ pc' = "done"
    /\ UNCHANGED <<utilVars, runVars, doc, registry, steps, outputDisplay, lastStep, checker,
                   index, declaredVars, errors>>

NextPaths == CallValidateModulePaths

SpecPaths == InitPaths /\ [][NextPaths]_vars

-----------------------------------------------------------------------------
(* The variable-reference walk, of the library and of the script.          *)

InitVars ==
    /\ doc = NoDoc
    /\ registry = DefaultRegistry
    /\ steps \in { WithIds(l) : l \in ListsOf(VarSteps, MaxVarSteps) }
    /\ outputDisplay = None
    /\ lastStep = None
    /\ pc = "idle"
    /\ checker = "none"
    /\ index = 0
    /\ declaredVars = {}
    /\ errors = <<>>
    /\ result = NoResult
    /\ NoRun

\* the library's checker starts: declaredVars holds the built-ins
StartLibraryWalk ==
    /\ pc = "idle"
    /\ pc' = "walk"
    /\ checker' = "library"
    /\ index' = 0
    /\ declaredVars' = BuiltinVars
    /\ errors' = <<>>
    /\ UNCHANGED <<utilVars, runVars, doc, registry, steps, outputDisplay, lastStep, result>>

\* the script's checker starts: declaredVariables is empty
StartScriptWalk ==
    /\ pc = "idle"
    /\ pc' = "walk"
    /\ checker' = "script"
    /\ index' = 0
    /\ declaredVars' = {}
    /\ errors' = <<>>
    /\ UNCHANGED <<utilVars, runVars, doc, registry, steps, outputDisplay, lastStep, result>>

\* one round of the library's steps.forEach
LibraryWalkStep ==
    /\ pc = "walk"
    /\ checker = "library"
    /\ index < Len(steps)
    /\ errors' = errors \o stepRefErrors(steps[index + 1], index, declaredVars)
    /\ declaredVars' = declareOutput(steps[index + 1], declaredVars)
    /\ index' = index + 1
    /\ UNCHANGED <<utilVars, runVars, doc, registry, steps, outputDisplay, lastStep, pc, checker,
                   result>>

\* one round of the script's steps.forEach
ScriptWalkStep ==
    /\ pc = "walk"
    /\ checker = "script"
    /\ index < Len(steps)
    /\ errors' = errors
                 \o scriptStepRefErrors(steps[index + 1], index, declaredVars)
    /\ declaredVars' = declareOutput(steps[index + 1], declaredVars)
    /\ index' = index + 1
    /\ UNCHANGED <<utilVars, runVars, doc, registry, steps, outputDisplay, lastStep, pc, checker,
                   result>>

\* the library's checker returns {valid, errors}
LibraryWalkReturn ==
    /\ pc = "walk"
    /\ checker = "library"
    /\ index = Len(steps)
    /\ result' = ValidationResult(Len(errors) = 0, errors)
    /\ pc' = "done"
    /\ UNCHANGED <<utilVars, runVars, doc, registry, steps, outputDisplay, lastStep, checker,
                   index, declaredVars, errors>>

\* the script's checker returns its list of messages
ScriptWalkReturn ==
    /\ pc = "walk"
    /\ checker = "script"
    /\ index = Len(steps)
    /\ result' = errors
    /\ pc' = "done"
    /\ UNCHANGED <<utilVars, runVars, doc, registry, steps, outputDisplay, lastStep, checker,
                   index, declaredVars, errors>>

NextVars ==
    \/ StartLibraryWalk
    \/ StartScriptWalk
    \/ LibraryWalkStep
    \/ ScriptWalkStep
    \/ LibraryWalkReturn
    \/ ScriptWalkReturn

SpecVars == InitVars /\ [][NextVars]_vars

-----------------------------------------------------------------------------
(* validateOutputDisplay called on a display and a last step.              *)

InitOutput ==
    /\ doc = NoDoc
    /\ registry = DefaultRegistry
    /\ steps = <<>>
    /\ outputDisplay \in OutputDisplayPool
    /\ lastStep \in LastStepPool
    /\ pc = "idle"
    /\ checker = "none"
    /\ index = 0
    /\ declaredVars = {}
    /\ errors = <<>>
    /\ result = NoResult
    /\ NoRun

CallValidateOutputDisplay ==
    /\ pc = "idle"
    /\ result' = validateOutputDisplay(outputDisplay, lastStep)
    /\ pc' = "done"
    /\ UNCHANGED <<utilVars, runVars, doc, registry, steps, outputDisplay, lastStep, checker,
                   index, declaredVars, errors>>

NextOutput == CallValidateOutputDisplay

SpecOutput == InitOutput /\ [][NextOutput]_vars

-----------------------------------------------------------------------------
(* Properties.                                                             *)

\* the keywords of the diagnostics of the passes that follow the schema
PassKeywords ==
    {"module-exists", "variable-declared", "table-columns",
     "output-type-mismatch"}

HasKeyword(errs, keyword) == \E k \in 1..Len(errs) : errs[k].keyword = keyword

\* what the later passes report on the steps and the display of a document
LaterPassErrors(w, reg) ==
    validateModulePaths(Get(w.config.steps), reg).errors
    \o validateVariableReferences(Get(w.config.steps)).errors
    \o validateOutputDisplay(w.config.outputDisplay,
                             LastOf(Get(w.config.steps))).errors

\* C1: when the structural pass reports the document invalid,
\* validateWorkflowComplete returns valid = false with at least one
\* diagnostic, exactly the diagnostics of the structural pass, and no
\* diagnostic of the capability-path, variable-reference or output-display
\* pass.
C1_SchemaGate ==
    (pc = "done" /\ ~validateWorkflowStructure(doc).valid) =>
        /\ result.valid = FALSE
        /\ Len(result.errors) >= 1
        /\ result.errors = formatAjvErrors(Some(workflowSchemaErrors(doc)))
        /\ \A k \in 1..Len(result.errors) :
               result.errors[k].keyword \notin PassKeywords

\* a rejected document on which the later passes would have reported
C1_Witness ==
    /\ pc = "done"
    /\ ~validateWorkflowStructure(doc).valid
    /\ IsSome(doc.config.steps)
    /\ Len(LaterPassErrors(doc, registry)) >= 2
    /\ result.valid = FALSE
    /\ Len(result.errors) = 1

\* whether the document's trigger violates the sub-schema of its type
TriggerViolates(w) ==
    /\ IsSome(w.trigger)
    /\ Get(w.trigger).type \in {"chat-input", "cron", "chat"}
    /\ Len(triggerSchemaErrors(Get(w.trigger).type, Get(w.trigger).config)) > 0

IsCatalogPath(path, reg) ==
    \E c \in Range(reg) : \E m \in Range(c.modules) :
        \E f \in Range(m.functions) :
            path = c.name \o "." \o m.name \o "." \o f.name

CategoryNames(reg) == { c.name : c \in Range(reg) }

\* the diagnostics of errs addressed to the module of the step with this id
ModuleErrorsFor(errs, id) ==
    { k \in 1..Len(errs) :
        /\ errs[k].keyword = "module-exists"
        /\ errs[k].path = "/config/steps/" \o id \o "/module" }

\* C3: validateModulePaths returns exactly one capability-not-found
\* diagnostic for each step whose path is not a category.module.function
\* path of the catalog and none for a step whose path is; the diagnostic's
\* suggestion is non-empty whenever the path's category segment is a
\* category of the catalog.
C3_OneDiagnosticPerMiss ==
    pc = "done" =>
        /\ \A i \in 1..Len(steps) :
               Cardinality(ModuleErrorsFor(result.errors, steps[i].id)) =
                   IF IsCatalogPath(steps[i].module, registry) THEN 0 ELSE 1
        /\ Len(result.errors) =
               Cardinality({ i \in 1..Len(steps) :
                               ~IsCatalogPath(steps[i].module, registry) })
        /\ \A i \in 1..Len(steps) :
               \A k \in ModuleErrorsFor(result.errors, steps[i].id) :
                   StrSplit(steps[i].module, ".")[1] \in CategoryNames(registry)
                       => /\ IsSome(result.errors[k].suggestion)
                          /\ Get(result.errors[k].suggestion) # ""

\* two steps miss the catalog, under a known category, and each has its
\* diagnostic
C3_Witness ==
    /\ pc = "done"
    /\ Len(steps) = 2
    /\ \A i \in 1..2 :
           /\ ~IsCatalogPath(steps[i].module, registry)
           /\ StrSplit(steps[i].module, ".")[1] \in CategoryNames(registry)
    /\ Len(result.errors) = 2

\* the three forms of a suggestion for the path of a step
CategoriesForm(module, reg) ==
    "Category \"" \o ElemOrUndefined(StrSplit(module, "."), 1)
        \o "\" not found. Available: "
        \o StrJoin([i \in 1..Len(reg) |-> reg[i].name], ", ")

ModulesForm(module, category) ==
    "Module \"" \o ElemOrUndefined(StrSplit(module, "."), 2)
        \o "\" not found in category \"" \o category.name
        \o "\". Available: "
        \o StrJoin([i \in 1..Len(category.modules) |->
                       category.modules[i].name], ", ")

FunctionsForm(category, module) ==
    "Function not found in " \o category.name \o "." \o module.name
        \o ". Available: "
        \o StrJoin([i \in 1..Len(module.functions) |->
                       module.functions[i].name], ", ")

\* the suggestion lists the categories / the modules of the path's
\* category / the functions of the path's module
ListsCategories(sugg, module, reg) == sugg = CategoriesForm(module, reg)

ListsModules(sugg, module, reg) ==
    \E c \in Range(reg) :
        /\ c.name = ElemOrUndefined(StrSplit(module, "."), 1)
        /\ sugg = ModulesForm(module, c)

ListsFunctions(sugg, module, reg) ==
    \E c \in Range(reg) : \E m \in Range(c.modules) :
        /\ c.name = ElemOrUndefined(StrSplit(module, "."), 1)
        /\ m.name = ElemOrUndefined(StrSplit(module, "."), 2)
        /\ sugg = FunctionsForm(c, m)

SegmentIsCategory(module, reg) ==
    ElemOrUndefined(StrSplit(module, "."), 1) \in CategoryNames(reg)

SegmentIsModule(module, reg) ==
    \E c \in Range(reg) :
        /\ c.name = ElemOrUndefined(StrSplit(module, "."), 1)
        /\ Len(StrSplit(module, ".")) >= 2
        /\ StrSplit(module, ".")[2] \in { m.name : m \in Range(c.modules) }

\* C4: for a step whose path is not in the catalog, the suggestion lists
\* the category names iff the first segment is no category; otherwise the
\* module names of that category iff the second segment is no module of
\* it; otherwise the function names of that module.  Exactly one form.
C4_GraduatedSuggestion ==
    pc = "done" =>
        \A i \in 1..Len(steps) :
            \A k \in ModuleErrorsFor(result.errors, steps[i].id) :
                LET sugg == Get(result.errors[k].suggestion)
                    path == steps[i].module
                IN  /\ ListsCategories(sugg, path, registry)
                           <=> ~SegmentIsCategory(path, registry)
                    /\ ListsModules(sugg, path, registry)
                           <=> /\ SegmentIsCategory(path, registry)
                               /\ ~SegmentIsModule(path, registry)
                    /\ ListsFunctions(sugg, path, registry)
                           <=> /\ SegmentIsCategory(path, registry)
                               /\ SegmentIsModule(path, registry)
                    /\ Cardinality({ form \in {"categories", "modules", "functions"} :
                           \/ form = "categories"
                                  /\ ListsCategories(sugg, path, registry)
                           \/ form = "modules"
                                  /\ ListsModules(sugg, path, registry)
                           \/ form = "functions"
                                  /\ ListsFunctions(sugg, path, registry) }) = 1

\* one call reports a missing module and a missing function, each in its
\* own form
C4_Witness ==
    /\ pc = "done"
    /\ Len(result.errors) = 2
    /\ ListsModules(Get(result.errors[1].suggestion), steps[1].module, registry)
    /\ ListsFunctions(Get(result.errors[2].suggestion), steps[2].module,
                      registry)

\* the walk of the library's checker, taken round by round, returns what
\* validateVariableReferences returns in one evaluation
LibraryWalkIsValidateVariableReferences ==
    (pc = "done" /\ checker = "library")
        => result = validateVariableReferences(steps)

\* the variable names the references of a step's inputs start with
RefNames(step) ==
    { Get(FirstVarName(ref)) :
        ref \in Range(MatchAllRefs(JsonStringify(step.inputs))) }

\* whether errs holds an unbound-variable diagnostic for the step at the
\* 0-based position idx that names the variable v
HasUnboundDiagnostic(errs, idx, v) ==
    \E k \in 1..Len(errs) :
        /\ errs[k].keyword = "variable-declared"
        /\ errs[k].path = "/config/steps/" \o ToString(idx) \o "/inputs"
        /\ errs[k].message = "Reference to undeclared variable: " \o v

\* the 1-based positions of the steps that bind v with outputAs
Binders(stepList, v) ==
    { j \in 1..Len(stepList) : stepList[j].outputAs = Some(v) }

\* C5: if step k references a variable that is no built-in and that only
\* steps at positions j >= k bind (step k itself included), the library's
\* validateVariableReferences returns an unbound-variable diagnostic for
\* step k that names the variable.
C5_NoRetroactiveBinding ==
    (pc = "done" /\ checker = "library") =>
        \A k \in 1..Len(steps) :
            \A v \in RefNames(steps[k]) :
                (v \notin {"user", "trigger"}
                     /\ \A j \in Binders(steps, v) : j >= k)
                    => HasUnboundDiagnostic(result.errors, k - 1, v)

\* a step references the name it binds itself, no earlier step binds it,
\* and the step is reported
C5_Witness ==
    /\ pc = "done"
    /\ checker = "library"
    /\ \E k \in 1..Len(steps) :
           \E v \in RefNames(steps[k]) :
               /\ steps[k].outputAs = Some(v)
               /\ \A j \in Binders(steps, v) : j >= k
               /\ HasUnboundDiagnostic(result.errors, k - 1, v)

\* C6: once step j declares outputAs = v, no later step m gets an
\* unbound-variable diagnostic for v, whatever the steps in between
\* declare.
C6_BindingStaysVisible ==
    (pc = "done" /\ checker = "library") =>
        \A j \in 1..Len(steps) :
            \A m \in (j + 1)..Len(steps) :
                (IsSome(steps[j].outputAs) /\ Get(steps[j].outputAs) # "")
                    => ~HasUnboundDiagnostic(result.errors, m - 1,
                                             Get(steps[j].outputAs))

\* the first step binds a name, the second binds another one, and the third
\* references the first name without a diagnostic
C6_Witness ==
    /\ pc = "done"
    /\ checker = "library"
    /\ Len(steps) = 3
    /\ IsSome(steps[1].outputAs)
    /\ IsSome(steps[2].outputAs)
    /\ steps[2].outputAs # steps[1].outputAs
    /\ Get(steps[1].outputAs) \in RefNames(steps[3])
    /\ ~HasUnboundDiagnostic(result.errors, 2, Get(steps[1].outputAs))

\* whether the script's message list reports the variable v for some step
ScriptReports(messages, stepList, v) ==
    \E k \in 1..Len(messages) : \E i \in 1..Len(stepList) :
        messages[k] = "Step " \o ToString(i) \o " (" \o stepList[i].id
                          \o "): References undeclared variable \"" \o v \o "\""

\* C7: neither checker ever reports the built-in names user and trigger.
C7_BuiltinsNeverReported ==
    pc = "done" =>
        \A v \in {"user", "trigger"} :
            IF checker = "library"
            THEN \A i \in 1..Len(steps) :
                     ~HasUnboundDiagnostic(result.errors, i - 1, v)
            ELSE ~ScriptReports(result, steps, v)

\* C7, the library's checker alone: it never reports user or trigger
C7_LibraryBuiltins ==
    (pc = "done" /\ checker = "library") =>
        \A v \in {"user", "trigger"} : \A i \in 1..Len(steps) :
            ~HasUnboundDiagnostic(result.errors, i - 1, v)

\* whether every reference of every step names a built-in or the outputAs
\* of a strictly earlier step
ReferencesBound(stepList) ==
    \A k \in 1..Len(stepList) :
        \A v \in RefNames(stepList[k]) :
            \/ v \in {"user", "trigger"}
            \/ \E j \in 1..(k - 1) : stepList[j].outputAs = Some(v)

\* C8: a schema-valid document without trigger and outputDisplay, whose
\* steps all name a path of the catalog and reference only built-ins and
\* outputs of strictly earlier steps, is valid with no diagnostic.
C8_NoFalsePositive ==
    ( /\ pc = "done"
      /\ validateWorkflowStructure(doc).valid
      /\ ~IsSome(doc.trigger)
      /\ ~IsSome(doc.config.outputDisplay)
      /\ \A i \in 1..Len(Get(doc.config.steps)) :
             IsCatalogPath(Get(doc.config.steps)[i].module, registry)
      /\ ReferencesBound(Get(doc.config.steps)) )
        => result = [valid |-> TRUE, errors |-> <<>>]

\* a producer with outputAs r, then a step that references r, and a step
\* that references a built-in: valid
C8_Witness ==
    /\ pc = "done"
    /\ validateWorkflowStructure(doc).valid
    /\ ~IsSome(doc.trigger)
    /\ ~IsSome(doc.config.outputDisplay)
    /\ Len(Get(doc.config.steps)) = 2
    /\ Get(doc.config.steps)[1].outputAs = Some("r")
    /\ "r" \in RefNames(Get(doc.config.steps)[2])
    /\ result = [valid |-> TRUE, errors |-> <<>>]

\* the number of table-columns diagnostics of a result
TableColumnsCount(errs) ==
    Cardinality({ k \in 1..Len(errs) :
                    /\ errs[k].keyword = "table-columns"
                    /\ errs[k].path = "/config/outputDisplay/columns" })

ColumnsMissingOrEmpty(od) == ~IsSome(od.columns) \/ Len(Get(od.columns)) = 0

\* C9 as claimed: for every table outputDisplay, validateOutputDisplay
\* returns exactly one table-columns diagnostic when columns is missing or
\* empty and none when there is at least one column.
C9_TableColumnsAlways ==
    (pc = "done" /\ IsSome(outputDisplay) /\ Get(outputDisplay).type = "table")
        => TableColumnsCount(result.errors) =
               IF ColumnsMissingOrEmpty(Get(outputDisplay)) THEN 1 ELSE 0

\* C9 amended: the same, when a last step is given (the step list is not
\* empty); without a last step validateOutputDisplay reports nothing.
C9_TableColumnsWithLastStep ==
    (pc = "done" /\ IsSome(outputDisplay) /\ Get(outputDisplay).type = "table")
        => TableColumnsCount(result.errors) =
               IF IsSome(lastStep) /\ ColumnsMissingOrEmpty(Get(outputDisplay))
               THEN 1 ELSE 0

\* a table with an empty columns array and a last step: one diagnostic
C9_Witness ==
    /\ pc = "done"
    /\ IsSome(outputDisplay)
    /\ Get(outputDisplay).type = "table"
    /\ Get(outputDisplay).columns = Some(<<>>)
    /\ IsSome(lastStep)
    /\ TableColumnsCount(result.errors) = 1

\* the fragments the claim lists as scalar-producing
ScalarFragments ==
    {"average", "sum", "count", "min", "max", "hashSHA256", "generateUUID",
     "now", "toISO"}

\* C10: when outputDisplay.type is table and the last step's path contains
\* a scalar-producing fragment, validateWorkflowComplete on a schema-valid
\* document reports the type-mismatch diagnostic, with or without columns.
C10_TableScalarMismatch ==
    ( /\ pc = "done"
      /\ validateWorkflowStructure(doc).valid
      /\ IsSome(doc.config.outputDisplay)
      /\ Get(doc.config.outputDisplay).type = "table"
      /\ Len(Get(doc.config.steps)) > 0
      /\ \E fragment \in ScalarFragments :
             StrIncludes(Get(LastOf(Get(doc.config.steps))).module, fragment) )
        => \E k \in 1..Len(result.errors) :
               /\ result.errors[k].keyword = "output-type-mismatch"
               /\ result.errors[k].path = "/config/outputDisplay/type"

\* a table without columns after a counting last step: both output
\* diagnostics are reported
C10_Witness ==
    /\ pc = "done"
    /\ validateWorkflowStructure(doc).valid
    /\ IsSome(doc.config.outputDisplay)
    /\ Get(doc.config.outputDisplay) = [type |-> "table", columns |-> None]
    /\ Len(Get(doc.config.steps)) > 0
    /\ StrIncludes(Get(LastOf(Get(doc.config.steps))).module, "count")
    /\ HasKeyword(result.errors, "table-columns")
    /\ HasKeyword(result.errors, "output-type-mismatch")

\* C11: validateOutputDisplay is a no-op when either argument is absent: if
\* outputDisplay is undefined or lastStep is undefined it returns
\* valid = true with no diagnostics, whatever the other argument is.
C11_NoOpWhenAbsent ==
    (pc = "done" /\ (~IsSome(outputDisplay) \/ ~IsSome(lastStep)))
        => result = [valid |-> TRUE, errors |-> <<>>]

\* a table without columns and no last step: the display alone would be
\* reported, the call returns the empty valid result
C11_Witness ==
    /\ pc = "done"
    /\ outputDisplay = Some([type |-> "table", columns |-> None])
    /\ lastStep = None
    /\ Len(outputDisplayErrors(Get(outputDisplay),
                               [id |-> "s1", module |-> "social.twitter.post"])) = 1
    /\ result = [valid |-> TRUE, errors |-> <<>>]

\* the pass a diagnostic's keyword belongs to: 1 capability-path,
\* 2 variable-reference, 3 output-display, 0 the schema validators
PassRank(keyword) ==
    CASE keyword = "module-exists" -> 1
      [] keyword = "variable-declared" -> 2
      [] keyword \in {"table-columns", "output-type-mismatch"} -> 3
      [] OTHER -> 0

\* the diagnostics of a list that belong to the pass of the given rank
OfPass(errs, rank) ==
    LET Keep(e) == PassRank(e.keyword) = rank
    IN  SelectSeq(errs, Keep)

\* C12: when the schema pass succeeds, validateWorkflowComplete runs the
\* capability-path, variable-reference and output-display passes
\* unconditionally: the result holds all the diagnostics each of them
\* reports on its own; every capability diagnostic precedes every
\* variable-reference diagnostic, which precedes every output-display
\* diagnostic; and valid is true exactly when the returned list is empty.
C12_AggregationOrder ==
    pc = "done" =>
        /\ result.valid <=> (Len(result.errors) = 0)
        /\ validateWorkflowStructure(doc).valid =>
            LET st == Get(doc.config.steps)
            IN  /\ OfPass(result.errors, 1) =
                       validateModulePaths(st, registry).errors
                /\ OfPass(result.errors, 2) =
                       validateVariableReferences(st).errors
                /\ OfPass(result.errors, 3) =
                       validateOutputDisplay(doc.config.outputDisplay,
                                             LastOf(st)).errors
                /\ \A i, j \in 1..Len(result.errors) :
                       i < j => PassRank(result.errors[i].keyword)
                                    <= PassRank(result.errors[j].keyword)

\* a schema-valid document on which all three passes report: the passes
\* after the first reporting one still ran
C12_Witness ==
    /\ pc = "done"
    /\ validateWorkflowStructure(doc).valid
    /\ Len(OfPass(result.errors, 1)) >= 1
    /\ Len(OfPass(result.errors, 2)) >= 2
    /\ Len(OfPass(result.errors, 3)) = 2
    /\ result.valid = FALSE

-----------------------------------------------------------------------------
(* validateWorkflowComplete called again and again.  declaredVars and      *)
(* errors hold what the last call left behind in its own set and list.     *)

\* fault variant: the set of declared variables outlives the call
declaredVarsAtEntryKept(left) == left \cup BuiltinVars

\* new Set(['user', 'trigger']) at the start of a walk: what an earlier walk
\* left in its set is not read
declaredVarsAtEntry(left) == BuiltinVars

\* const allErrors = [] at the start of a call
allErrorsAtEntry(left) == <<>>

RECURSIVE declaredAfter(_, _)
\* the declared set when the walk has passed all steps
declaredAfter(stepList, declared) ==
    IF Len(stepList) = 0 THEN declared
    ELSE declaredAfter(Tail(stepList), declareOutput(Head(stepList), declared))

\* one call of validateWorkflowComplete: its result, and the set and the
\* list it leaves behind
validateWorkflowCompleteCall(w, reg, leftDeclared, leftErrors) ==
    LET structureResult == validateWorkflowStructure(w)
    IN  IF ~structureResult.valid
        THEN [result |-> structureResult, declaredVars |-> leftDeclared,
              errors |-> leftErrors]
        ELSE LET st == Get(w.config.steps)
                 entry == declaredVarsAtEntry(leftDeclared)
                 allErrors ==
                     allErrorsAtEntry(leftErrors)
                     \o (IF IsSome(w.trigger)
                         THEN validateTrigger(Get(w.trigger)).errors ELSE <<>>)
                     \o validateModulePaths(st, reg).errors
                     \o variableWalk(st, 0, entry)
                     \o validateOutputDisplay(w.config.outputDisplay,
                                              LastOf(st)).errors
             IN  [result |-> ValidationResult(Len(allErrors) = 0, allErrors),
                  declaredVars |-> declaredAfter(st, entry),
                  errors |-> allErrors]

\* a producer of r, a consumer of r, a document the schema rejects, and a
\* document every later pass reports on
RepeatPool ==
    { Workflow(Some("producer"), None,
               Some(WithIds(<<Step("", "ai.openai.generateText", PlainInputs,
                                   Some("r"))>>)), None),
      Workflow(Some("consumer"), None,
               Some(WithIds(<<Step("", "utilities.math.count",
                                   << <<"p", "{{r}}">> >>, None)>>)), None),
      Workflow(None, None, Some(<<>>), None),
      Workflow(Some("wrong"), Some(Trigger("cron", {})),
               Some(WithIds(<<Step("", "social.twitter.post",
                                   << <<"p", "{{x}}">> >>, Some("x"))>>)),
               Some([type |-> "table", columns |-> None])) }

InitRepeat ==
    /\ doc = NoDoc
    /\ registry \in RegistryPool
    /\ steps = <<>>
    /\ outputDisplay = None
    /\ lastStep = None
    /\ pc = "idle"
    /\ checker = "none"
    /\ index = 0
    /\ declaredVars = {}
    /\ errors = <<>>
    /\ result = NoResult
    /\ NoRun

\* a caller validates a document of its choice
CallValidateWorkflowCompleteAgain ==
    /\ Len(calls) < MaxCalls
    /\ \E d \in RepeatPool :
           LET call == validateWorkflowCompleteCall(d, registry, declaredVars,
                                                    errors)
           IN  /\ doc' = d
               /\ result' = call.result
               /\ declaredVars' = call.declaredVars
               /\ errors' = call.errors
               /\ calls' = Append(calls, [input |-> d, catalog |-> registry,
                                          output |-> call.result])
    /\ UNCHANGED <<utilVars, registry, steps, outputDisplay, lastStep, pc, checker,
                   index, script, content, implementations, loaded, exitCode>>

\* the catalog is regenerated between two calls
ChangeCatalog ==
    /\ Len(calls) < MaxCalls
    /\ registry' \in RegistryPool \ {registry}
    /\ UNCHANGED <<utilVars, doc, steps, outputDisplay, lastStep, pc, checker, index,
                   declaredVars, errors, result, runVars>>

NextRepeat == CallValidateWorkflowCompleteAgain \/ ChangeCatalog

SpecRepeat == InitRepeat /\ [][NextRepeat]_vars

\* C13: validating the same document twice, in either order relative to
\* validations of other documents, with an unchanged catalog yields the same
\* diagnostic list and the same valid flag: every call's result is the
\* value validateWorkflowComplete has for its document and catalog alone,
\* whatever the earlier calls bound or reported.
C13_Idempotent ==
    /\ \A i, j \in 1..Len(calls) :
           (calls[i].input = calls[j].input
            /\ calls[i].catalog = calls[j].catalog)
               => calls[i].output = calls[j].output
    /\ \A i \in 1..Len(calls) :
           calls[i].output =
               validateWorkflowComplete(calls[i].input, calls[i].catalog)

\* the consumer of r validated before and after the producer of r, with
\* the same catalog: both times r is reported as undeclared
C13_Witness ==
    /\ Len(calls) = 3
    /\ calls[1].input.name = Some("consumer")
    /\ calls[2].input.name = Some("producer")
    /\ calls[3].input = calls[1].input
    /\ calls[3].catalog = calls[1].catalog
    /\ "r" \in declaredAfter(Get(calls[2].input.config.steps), BuiltinVars)
    /\ HasKeyword(calls[3].output.errors, "variable-declared")
    /\ calls[3].output = calls[1].output

-----------------------------------------------------------------------------
(* The validator called on any parsed value.  A step that lacks a property *)
(* is a record without that field; reading the property gives undefined,   *)
(* and a method call on undefined raises a TypeError.                      *)

\* the TypeError a call raises instead of returning
TypeError == [thrown |-> "TypeError"]
Throws(r) == "thrown" \in DOMAIN r

\* step.module.split('.') on a step without module (validPaths.has(undefined)
\* is false, so the branch is taken)
validateModulePathsRaw(stepList, reg) ==
    IF \E i \in 1..Len(stepList) : "module" \notin DOMAIN stepList[i]
    THEN TypeError
    ELSE validateModulePaths(stepList, reg)

\* JSON.stringify(undefined) is undefined, and inputsStr.match raises
validateVariableReferencesRaw(stepList) ==
    IF \E i \in 1..Len(stepList) : "inputs" \notin DOMAIN stepList[i]
    THEN TypeError
    ELSE validateVariableReferences(stepList)

\* lastStep.module.includes(mod) on a last step without module, which is
\* evaluated for a table only
validateOutputDisplayRaw(od, last) ==
    IF /\ IsSome(od)
       /\ IsSome(last)
       /\ Get(od).type = "table"
       /\ "module" \notin DOMAIN Get(last)
    THEN TypeError
    ELSE validateOutputDisplay(od, last)

\* the passes after the structural one, on the steps as they are
completeRaw(w, reg) ==
    LET st == Get(w.config.steps)
        moduleResult == validateModulePathsRaw(st, reg)
        varResult == validateVariableReferencesRaw(st)
        outputResult == validateOutputDisplayRaw(w.config.outputDisplay,
                                                 LastOf(st))
    IN  IF Throws(moduleResult) \/ Throws(varResult) \/ Throws(outputResult)
        THEN TypeError
        ELSE LET allErrors ==
                     (IF IsSome(w.trigger)
                      THEN validateTrigger(Get(w.trigger)).errors ELSE <<>>)
                     \o moduleResult.errors \o varResult.errors
                     \o outputResult.errors
             IN  ValidationResult(Len(allErrors) = 0, allErrors)

\* fault variant: no structural gate; w.trigger of null and w.config.steps
\* of a value without config raise
validateWorkflowCompleteRawNoGate(w, reg) ==
    IF "kind" \in DOMAIN w THEN TypeError
    ELSE IF "config" \notin DOMAIN w THEN TypeError
    ELSE IF ~IsSome(w.config.steps) THEN TypeError
    ELSE completeRaw(w, reg)

\* validateWorkflowComplete(workflow: unknown)
validateWorkflowCompleteRaw(w, reg) ==
    LET structureResult == validateWorkflowStructure(w)
    IN  IF ~structureResult.valid THEN structureResult
        ELSE completeRaw(w, reg)

\* parsed values that are no objects
NonObject(kind, typeof) == [kind |-> kind, typeof |-> typeof]

NonObjectPool ==
    { NonObject("null", "object"), NonObject("string", "string"),
      NonObject("number", "number"), NonObject("array", "object") }

\* a well-formed step, a step without inputs, a step without module
RawSteps ==
    { Step("", "ai.openai.generateText", << <<"p", "{{user.id}}">> >>, None),
      [id |-> "", module |-> "utilities.math.count", outputAs |-> None],
      [id |-> "", inputs |-> << <<"p", "{{x}}">> >>, outputAs |-> None] }

RawWithIds(list) ==
    [i \in 1..Len(list) |-> [list[i] EXCEPT !.id = "s" \o ToString(i)]]

RawDocPool ==
    NonObjectPool
    \cup { [name |-> n, trigger |-> t] :
             n \in { None, Some("wf") },
             t \in { None, Some(Trigger("cron", {})) } }
    \cup { Workflow(n, t, st, od) :
             n \in { None, Some("wf") },
             t \in { None, Some(Trigger("cron", {})) },
             st \in { None } \cup { Some(RawWithIds(l)) :
                                       l \in ListsOf(RawSteps, MaxRawSteps) },
             od \in { None, Some([type |-> "table",
                                  columns |-> Some(<<Column(1)>>)]) } }

HasSteps(w) ==
    /\ "kind" \notin DOMAIN w
    /\ "config" \in DOMAIN w
    /\ IsSome(w.config.steps)

InitRaw ==
    /\ doc \in RawDocPool
    /\ registry = DefaultRegistry
    /\ steps = <<>>
    /\ outputDisplay = None
    /\ lastStep = None
    /\ pc = "idle"
    /\ checker = "none"
    /\ index = 0
    /\ declaredVars = {}
    /\ errors = <<>>
    /\ result = NoResult
    /\ NoRun

\* the call returns result, or raises it
ReturnRaw(function, value) ==
    /\ pc = "idle"
    /\ pc' = "done"
    /\ checker' = function
    /\ result' = value
    /\ UNCHANGED <<utilVars, doc, registry, steps, outputDisplay, lastStep, index,
                   declaredVars, errors, runVars>>

CallValidateWorkflowCompleteRaw ==
    ReturnRaw("validateWorkflowComplete",
              validateWorkflowCompleteRaw(doc, registry))

\* a caller hands the document's steps to one pass, without the gate
CallValidateModulePathsRaw ==
    /\ HasSteps(doc)
    /\ ReturnRaw("validateModulePaths",
                 validateModulePathsRaw(Get(doc.config.steps), registry))

CallValidateVariableReferencesRaw ==
    /\ HasSteps(doc)
    /\ ReturnRaw("validateVariableReferences",
                 validateVariableReferencesRaw(Get(doc.config.steps)))

CallValidateOutputDisplayRaw ==
    /\ HasSteps(doc)
    /\ ReturnRaw("validateOutputDisplay",
                 validateOutputDisplayRaw(doc.config.outputDisplay,
                                          LastOf(Get(doc.config.steps))))

CallValidateTriggerRaw ==
    /\ "kind" \notin DOMAIN doc
    /\ IsSome(doc.trigger)
    /\ ReturnRaw("validateTrigger", validateTrigger(Get(doc.trigger)))

NextRaw ==
    \/ CallValidateWorkflowCompleteRaw
    \/ CallValidateModulePathsRaw
    \/ CallValidateVariableReferencesRaw
    \/ CallValidateOutputDisplayRaw
    \/ CallValidateTriggerRaw

SpecRaw == InitRaw /\ [][NextRaw]_vars

LacksProperty(stepList, property) ==
    \E i \in 1..Len(stepList) : property \notin DOMAIN stepList[i]

-----------------------------------------------------------------------------
(* Deep validation of the validate-workflow-new script: the modules are    *)
(* loaded and the functions looked up.  An implementation is a record      *)
(* [path, ok, message, exports]: the file import() finds under path,       *)
(* whether it loads, the error it raises if not, and its exports in the    *)
(* order of Object.keys, each [name, callable].                            *)

Export(name, callable) == [name |-> name, callable |-> callable]

Implementation(path, ok, message, exports) ==
    [path |-> path, ok |-> ok, message |-> message, exports |-> exports]

\* await import(modulePath): the module's exports, or the error raised
importModule(modulePath, impls) ==
    IF \E k \in 1..Len(impls) : impls[k].path = modulePath
    THEN LET impl == impls[CHOOSE k \in 1..Len(impls) :
                               impls[k].path = modulePath]
         IN  IF impl.ok THEN [ok |-> TRUE, exports |-> impl.exports]
             ELSE [ok |-> FALSE, message |-> impl.message]
    ELSE [ok |-> FALSE,
          message |-> "Cannot find module '" \o modulePath \o "'"]

\* `../src/modules/${category}/${moduleName}`
modulePathOf(step) ==
    LET parts == StrSplit(step.module, ".")
    IN  "../src/modules/" \o ElemOrUndefined(parts, 1) \o "/"
            \o ElemOrUndefined(parts, 2)

\* typeof mod[functionName] === 'function'
IsCallable(exports, functionName) ==
    \E k \in 1..Len(exports) :
        exports[k].name = functionName /\ exports[k].callable

\* fault variant: every export is listed
availableFunctionsAll(exports) == [k \in 1..Len(exports) |-> exports[k].name]

\* Object.keys(mod).filter(key => typeof mod[key] === 'function')
availableFunctions(exports) ==
    LET Callable(e) == e.callable
        kept == SelectSeq(exports, Callable)
    IN  [k \in 1..Len(kept) |-> kept[k].name]

\* fault variant: no try/catch around the import; a module that fails to
\* load ends the function
verifyStepNoCatch(step, impls) ==
    LET parts == StrSplit(step.module, ".")
        functionName == ElemOrUndefined(parts, 3)
        mod == importModule(modulePathOf(step), impls)
    IN  IF ~mod.ok THEN [thrown |-> TRUE, errors |-> <<>>]
        ELSE [thrown |-> FALSE,
              errors |-> IF IsCallable(mod.exports, functionName) THEN <<>>
                         ELSE <<"Step \"" \o step.id \o "\": Function \""
                                    \o functionName \o "\" not found">>]

\* one round of the for loop of validateModuleFunctions: the messages it
\* pushes, and whether it raises
verifyStep(step, impls) ==
    LET parts == StrSplit(step.module, ".")
        category == ElemOrUndefined(parts, 1)
        moduleName == ElemOrUndefined(parts, 2)
        functionName == ElemOrUndefined(parts, 3)
        mod == importModule(modulePathOf(step), impls)
    IN  IF ~mod.ok
        THEN [thrown |-> FALSE,
              errors |-> <<"Step \"" \o step.id
                               \o "\": Failed to load module " \o category
                               \o "/" \o moduleName \o ": " \o mod.message>>]
        ELSE IF IsCallable(mod.exports, functionName)
        THEN [thrown |-> FALSE, errors |-> <<>>]
        ELSE [thrown |-> FALSE,
              errors |->
                  <<"Step \"" \o step.id \o "\": Function \"" \o functionName
                        \o "\" not found in module " \o category \o "/"
                        \o moduleName>>
                  \o (IF Len(availableFunctions(mod.exports)) > 0
                      THEN <<"   Available functions: "
                                 \o StrJoin(availableFunctions(mod.exports),
                                            ", ")>>
                      ELSE <<>>)]

\* the implementation files: complete; openai without generateText; openai
\* with a syntax error; no file for math; openai without any function
ImplementationsPool ==
    { << Implementation("../src/modules/ai/openai", TRUE, "",
             <<Export("MODEL", FALSE), Export("chat", TRUE),
               Export("generateText", TRUE)>>),
         Implementation("../src/modules/utilities/math", TRUE, "",
             <<Export("count", TRUE), Export("sum", TRUE)>>) >>,
      << Implementation("../src/modules/ai/openai", TRUE, "",
             <<Export("MODEL", FALSE), Export("chat", TRUE),
               Export("generate", TRUE), Export("generateText", FALSE)>>),
         Implementation("../src/modules/utilities/math", TRUE, "",
             <<Export("count", TRUE)>>) >>,
      << Implementation("../src/modules/ai/openai", FALSE,
             "Unexpected token", <<>>),
         Implementation("../src/modules/utilities/math", TRUE, "",
             <<Export("count", TRUE), Export("sum", TRUE)>>) >>,
      << Implementation("../src/modules/ai/openai", TRUE, "",
             <<Export("chat", TRUE), Export("generateText", TRUE)>>) >>,
      << Implementation("../src/modules/ai/openai", TRUE, "",
             <<Export("MODEL", FALSE)>>),
         Implementation("../src/modules/utilities/math", TRUE, "", <<>>) >> }

DeepSteps ==
    { Step("", m, PlainInputs, None) :
        m \in { "ai.openai.generateText", "ai.openai.chat",
                "utilities.math.sum", "utilities.math", "ai" } }

InitDeep ==
    /\ doc = NoDoc
    /\ registry = DefaultRegistry
    /\ steps \in { WithIds(l) : l \in ListsOf(DeepSteps, MaxDeepSteps) }
    /\ outputDisplay = None
    /\ lastStep = None
    /\ pc = "deep"
    /\ checker = "none"
    /\ index = 0
    /\ declaredVars = {}
    /\ errors = <<>>
    /\ result = NoResult
    /\ calls = <<>>
    /\ script = "none"
    /\ content = NoContent
    /\ implementations \in ImplementationsPool
    /\ loaded = <<>>
    /\ exitCode = None
    /\ NoUtil

\* one round of the loop: the step's module is imported and looked at
DeepVerifyStep ==
    /\ pc = "deep"
    /\ index < Len(steps)
    /\ LET round == verifyStep(steps[index + 1], implementations)
       IN  /\ loaded' = Append(loaded, modulePathOf(steps[index + 1]))
           /\ errors' = errors \o round.errors
           /\ pc' = IF round.thrown THEN "thrown" ELSE "deep"
    /\ index' = index + 1
    /\ UNCHANGED <<utilVars, doc, registry, steps, outputDisplay, lastStep, checker,
                   declaredVars, result, calls, script, content,
                   implementations, exitCode>>

\* return errors
DeepVerifyReturn ==
    /\ pc = "deep"
    /\ index = Len(steps)
    /\ result' = errors
    /\ pc' = "returned"
    /\ UNCHANGED <<utilVars, doc, registry, steps, outputDisplay, lastStep, checker,
                   index, declaredVars, errors, runVars>>

NextDeep == DeepVerifyStep \/ DeepVerifyReturn

SpecDeep == InitDeep /\ [][NextDeep]_vars

\* the messages of a report that are addressed to the step of the given id
MessagesOfStep(messages, id) ==
    { k \in 1..Len(messages) :
        StartsWithAt(messages[k], 1, "Step \"" \o id \o "\": ") }

\* whether the step's module loads, and whether it then has the function
ModuleLoads(step, impls) == importModule(modulePathOf(step), impls).ok

HasFunction(step, impls) ==
    /\ ModuleLoads(step, impls)
    /\ \E e \in Range(importModule(modulePathOf(step), impls).exports) :
           /\ e.name = ElemOrUndefined(StrSplit(step.module, "."), 3)
           /\ e.callable

\* C17: validateModuleFunctions never raises and always returns its list;
\* a module that fails to load gives a failed-to-load message for its step,
\* and every other step is still verified: each step's module is imported,
\* the list has at least one message for each step whose module fails to
\* load or lacks the function, and none for a step that verifies.
C17_DeepAlwaysReports ==
    /\ pc # "thrown"
    /\ pc = "returned" =>
           /\ Len(loaded) = Len(steps)
           /\ \A i \in 1..Len(steps) :
                  LET mine == MessagesOfStep(result, steps[i].id)
                  IN  /\ HasFunction(steps[i], implementations) => mine = {}
                      /\ ~HasFunction(steps[i], implementations) => mine # {}
                      /\ ~ModuleLoads(steps[i], implementations) =>
                             \E k \in mine :
                                 StrIncludes(result[k], "Failed to load module")

\* the first step's module fails to load, the second step is verified
\* all the same
C17_Witness ==
    /\ pc = "returned"
    /\ Len(steps) = 2
    /\ ~ModuleLoads(steps[1], implementations)
    /\ HasFunction(steps[2], implementations)
    /\ loaded = <<modulePathOf(steps[1]), modulePathOf(steps[2])>>
    /\ Len(result) = 1
    /\ MessagesOfStep(result, "s1") = {1}

RECURSIVE CallableNames(_)
\* the names of the exports that are functions, in the order of the exports
CallableNames(exports) ==
    IF Len(exports) = 0 THEN <<>>
    ELSE (IF Head(exports).callable THEN <<Head(exports).name>> ELSE <<>>)
         \o CallableNames(Tail(exports))

\* C18: for a step whose module loads but exports no function under the
\* step's function name, validateModuleFunctions reports that the function
\* was not found and, right after, lists the exports that are functions:
\* all of them and only them (no list when there is none).
C18_FunctionLookup ==
    pc = "returned" =>
        \A i \in 1..Len(steps) :
            ( /\ ModuleLoads(steps[i], implementations)
              /\ ~HasFunction(steps[i], implementations) ) =>
                LET names == CallableNames(
                                 importModule(modulePathOf(steps[i]),
                                              implementations).exports)
                    listed(k) ==
                        /\ k <= Len(result)
                        /\ StartsWithAt(result[k], 1, "   Available functions: ")
                IN  \E k \in MessagesOfStep(result, steps[i].id) :
                        /\ StrIncludes(result[k],
                               "Function \""
                               \o ElemOrUndefined(StrSplit(steps[i].module, "."), 3)
                               \o "\" not found in module ")
                        /\ IF Len(names) > 0
                           THEN /\ listed(k + 1)
                                /\ result[k + 1] = "   Available functions: "
                                                       \o StrJoin(names, ", ")
                           ELSE ~listed(k + 1)

\* a module that exports a constant under the function's name, two
\* functions and another constant: the two functions are listed
C18_Witness ==
    /\ pc = "returned"
    /\ Len(steps) = 1
    /\ steps[1].module = "ai.openai.generateText"
    /\ ModuleLoads(steps[1], implementations)
    /\ result = <<"Step \"s1\": Function \"generateText\" not found in module ai/openai",
                  "   Available functions: chat, generate">>

-----------------------------------------------------------------------------
(* The two validate-workflow scripts, from the text they read to their     *)
(* exit status.  A content is [text, isYaml, parsed]: parsed is what the   *)
(* parser of the content's format returns for the text, None when it       *)
(* raises.                                                                 *)

UpperSeq == "ABCDEFGHIJKLMNOPQRSTUVWXYZ"
LowerSeq == "abcdefghijklmnopqrstuvwxyz"

RECURSIVE ToLowerCase(_)
\* String.prototype.toLowerCase
ToLowerCase(s) ==
    IF Len(s) = 0 THEN ""
    ELSE (IF Head(s) \in UpperChars
          THEN CharAt(LowerSeq, CHOOSE k \in 1..26 : CharAt(UpperSeq, k) = Head(s))
          ELSE Head(s))
         \o ToLowerCase(Tail(s))

\* the set the script's validateModulePaths builds: the category name is
\* lowercased
scriptValidPaths(reg) ==
    UNION { UNION { { ToLowerCase(c.name) \o "." \o m.name \o "." \o f.name :
                      f \in Range(m.functions) } :
                    m \in Range(c.modules) } :
            c \in Range(reg) }

RECURSIVE scriptModulePathErrors(_, _, _)
\* steps.forEach of the script's validateModulePaths from index idx on
scriptModulePathErrors(stepList, idx, valid) ==
    IF idx >= Len(stepList) THEN <<>>
    ELSE (IF stepList[idx + 1].module \notin valid
          THEN <<"Step " \o ToString(idx + 1) \o " (" \o stepList[idx + 1].id
                     \o "): Module \"" \o stepList[idx + 1].module
                     \o "\" not found in registry">>
          ELSE <<>>)
         \o scriptModulePathErrors(stepList, idx + 1, valid)

scriptValidateModulePaths(workflow, reg) ==
    scriptModulePathErrors(Get(workflow.config.steps), 0, scriptValidPaths(reg))

RECURSIVE scriptVariableWalk(_, _, _)
\* steps.forEach of the script's validateVariableReferences
scriptVariableWalk(stepList, idx, declared) ==
    IF idx >= Len(stepList) THEN <<>>
    ELSE scriptStepRefErrors(stepList[idx + 1], idx, declared)
         \o scriptVariableWalk(stepList, idx + 1,
                               declareOutput(stepList[idx + 1], declared))

scriptValidateVariableReferences(workflow) ==
    scriptVariableWalk(Get(workflow.config.steps), 0, {})

\* validateWorkflowExport of ./import-export, which is not among the
\* sources: the basic structure validation, taken to accept what the
\* structural schema accepts
validateWorkflowExport(workflow) ==
    LET violations == workflowSchemaErrors(workflow)
    IN  [valid |-> Len(violations) = 0,
         errors |-> [k \in 1..Len(violations) |->
                        Get(violations[k].message)]]

RECURSIVE validateModuleFunctions(_, _)
\* the list validateModuleFunctions returns
validateModuleFunctions(stepList, impls) ==
    IF Len(stepList) = 0 THEN <<>>
    ELSE verifyStep(Head(stepList), impls).errors
         \o validateModuleFunctions(Tail(stepList), impls)

\* fault variant: the text is parsed without the search for undefined
parseNewNoSearch(c) == c.parsed

\* the parse step of validate-workflow-new: the document, or None when the
\* script exits
parseNew(c) ==
    IF c.isYaml THEN c.parsed
    ELSE IF StrIncludes(c.text, "undefined") THEN None
    ELSE c.parsed

\* the parse step of validate-workflow: JSON.parse, whatever the file is
parseOld(c) == IF c.isYaml THEN None ELSE c.parsed

\* fault variant: deep validation starts whatever the validator returned
afterValidateAlwaysDeep(validation) == "deep"

\* if (!result.valid) process.exit(1)
afterValidate(validation) == IF ~validation.valid THEN "exit" ELSE "deep"

\* fault variant: the function errors are printed and the script goes on
afterDeepPrintOnly(functionErrors) == "summary"

\* if (functionErrors.length > 0) process.exit(1)
afterDeep(functionErrors) ==
    IF Len(functionErrors) > 0 THEN "exit" ELSE "summary"

\* the returnValue hint reads lastStep.outputAs: a TypeError for an empty
\* step list, which the outer catch turns into exit status 1.  The
\* documents here have no config.returnValue.
summaryRaises(workflow) ==
    /\ ~(IsSome(workflow.trigger) /\ Get(workflow.trigger).type = "chat")
    /\ Len(Get(workflow.config.steps)) = 0

\* the JSON text of a step and of a document, as a file holds it
StepJson(step) ==
    "{\"id\":" \o JsonString(step.id) \o ",\"module\":"
        \o JsonString(step.module) \o ",\"inputs\":"
        \o JsonStringify(step.inputs)
        \o (IF IsSome(step.outputAs)
            THEN ",\"outputAs\":" \o JsonString(Get(step.outputAs)) ELSE "")
        \o "}"

WorkflowJson(w) ==
    "{\"version\":\"1.0\""
        \o (IF IsSome(w.name) THEN ",\"name\":" \o JsonString(Get(w.name))
            ELSE "")
        \o (IF IsSome(w.trigger)
            THEN ",\"trigger\":{\"type\":" \o JsonString(Get(w.trigger).type)
                     \o ",\"config\":{}}"
            ELSE "")
        \o ",\"config\":{\"steps\":["
        \o StrJoin([k \in 1..Len(Get(w.config.steps)) |->
                        StepJson(Get(w.config.steps)[k])], ",")
        \o "]"
        \o (IF IsSome(w.config.outputDisplay)
            THEN ",\"outputDisplay\":{\"type\":"
                     \o JsonString(Get(w.config.outputDisplay).type) \o "}"
            ELSE "")
        \o "}}"

\* one clean step
CleanStep == Step("", "ai.openai.generateText", PlainInputs, Some("r"))

\* the documents the scripts are run on: clean ones (one named undefined,
\* one without steps, one using a built-in), and one for each stage to
\* report on
CliDocs ==
    { Workflow(Some("wf"), None, Some(WithIds(<<CleanStep>>)), None),
      Workflow(Some("wf"), Some(Trigger("manual", {})),
               Some(WithIds(<<CleanStep,
                              Step("", "utilities.math.sum",
                                   << <<"p", "{{r}}">> >>, None)>>)), None),
      Workflow(Some("undefined"), None, Some(WithIds(<<CleanStep>>)), None),
      Workflow(Some("wf"), None, Some(<<>>), None),
      Workflow(Some("wf"), None,
               Some(WithIds(<<Step("", "ai.openai.chat",
                                   << <<"p", "{{trigger.x}}">> >>, None)>>)),
               None),
      Workflow(None, None, Some(WithIds(<<CleanStep>>)), None),
      Workflow(Some("wf"), Some(Trigger("cron", {})),
               Some(WithIds(<<CleanStep>>)), None),
      Workflow(Some("wf"), None,
               Some(WithIds(<<Step("", "zz.nope.fn", PlainInputs, None)>>)),
               None),
      Workflow(Some("wf"), None,
               Some(WithIds(<<Step("", "ai.openai.chat",
                                   << <<"p", "{{x}}">> >>, None)>>)), None),
      Workflow(Some("wf"), None, Some(WithIds(<<CleanStep>>)),
               Some([type |-> "table", columns |-> None])) }

Content(text, isYaml, parsed) ==
    [text |-> text, isYaml |-> isYaml, parsed |-> parsed]

\* JSON files of the documents, two texts JSON.parse rejects, two YAML files
\* (one of a document named undefined) and a text YAML.parse rejects
ContentPool ==
    { Content(WorkflowJson(d), FALSE, Some(d)) : d \in CliDocs }
    \cup { Content("{\"name\":\"wf\"", FALSE, None),
           Content("{\"name\":undefined}", FALSE, None),
           Content("name: wf\nconfig:\n  steps:\n    - id: s1\n      module: ai.openai.generateText\n      inputs:\n        text: hello\n      outputAs: r\n",
                   TRUE,
                   Some(Workflow(Some("wf"), None, Some(WithIds(<<CleanStep>>)),
                                 None))),
           Content("name: \"undefined\"\nconfig:\n  steps:\n    - id: s1\n      module: ai.openai.generateText\n      inputs:\n        text: hello\n      outputAs: r\n",
                   TRUE,
                   Some(Workflow(Some("undefined"), None,
                                 Some(WithIds(<<CleanStep>>)), None))),
           Content("name: [wf", TRUE, None) }

InitCli ==
    /\ doc = NoDoc
    /\ registry = DefaultRegistry
    /\ steps = <<>>
    /\ outputDisplay = None
    /\ lastStep = None
    /\ pc = "start"
    /\ checker = "none"
    /\ index = 0
    /\ declaredVars = {}
    /\ errors = <<>>
    /\ result = NoResult
    /\ calls = <<>>
    /\ script \in {"validate-workflow-new", "validate-workflow"}
    /\ content \in ContentPool
    /\ implementations \in ImplementationsPool
    /\ loaded = <<>>
    /\ exitCode = None
    /\ NoUtil

\* process.exit(code), or the end of the script for status 0
Exit(code) ==
    /\ pc' = "exited"
    /\ exitCode' = Some(code)

\* validate-workflow-new: the text is parsed
NewParse ==
    /\ script = "validate-workflow-new"
    /\ pc = "start"
    /\ IF IsSome(parseNew(content))
       THEN /\ doc' = Get(parseNew(content))
            /\ pc' = "parsed"
            /\ UNCHANGED exitCode
       ELSE /\ Exit(1)
            /\ UNCHANGED doc
    /\ UNCHANGED <<utilVars, registry, steps, outputDisplay, lastStep, checker, index,
                   declaredVars, errors, result, calls, script, content,
                   implementations, loaded>>

\* validate-workflow-new: validateWorkflowComplete, and the exit when it
\* reports
NewValidate ==
    /\ script = "validate-workflow-new"
    /\ pc = "parsed"
    /\ result' = validateWorkflowComplete(doc, registry)
    /\ IF afterValidate(result') = "exit"
       THEN /\ Exit(1)
            /\ UNCHANGED <<utilVars, steps, index, errors>>
       ELSE /\ pc' = "deep"
            /\ steps' = Get(doc.config.steps)
            /\ index' = 0
            /\ errors' = <<>>
            /\ UNCHANGED exitCode
    /\ UNCHANGED <<utilVars, doc, registry, outputDisplay, lastStep, checker,
                   declaredVars, calls, script, content, implementations,
                   loaded>>

\* validate-workflow-new: the exit when deep validation reports
NewAfterDeep ==
    /\ script = "validate-workflow-new"
    /\ pc = "returned"
    /\ IF afterDeep(result) = "exit"
       THEN Exit(1)
       ELSE pc' = "summary" /\ UNCHANGED exitCode
    /\ UNCHANGED <<utilVars, doc, registry, steps, outputDisplay, lastStep, checker,
                   index, declaredVars, errors, result, calls, script,
                   content, implementations, loaded>>

\* validate-workflow-new: the returnValue hint and the summary
NewSummary ==
    /\ script = "validate-workflow-new"
    /\ pc = "summary"
    /\ Exit(IF summaryRaises(doc) THEN 1 ELSE 0)
    /\ UNCHANGED <<utilVars, doc, registry, steps, outputDisplay, lastStep, checker,
                   index, declaredVars, errors, result, calls, script,
                   content, implementations, loaded>>

\* validate-workflow: JSON.parse
OldParse ==
    /\ script = "validate-workflow"
    /\ pc = "start"
    /\ IF IsSome(parseOld(content))
       THEN /\ doc' = Get(parseOld(content))
            /\ pc' = "parsed"
            /\ UNCHANGED exitCode
       ELSE /\ Exit(1)
            /\ UNCHANGED doc
    /\ UNCHANGED <<utilVars, registry, steps, outputDisplay, lastStep, checker, index,
                   declaredVars, errors, result, calls, script, content,
                   implementations, loaded>>

\* validate-workflow: basic structure validation
OldValidateExport ==
    /\ script = "validate-workflow"
    /\ pc = "parsed"
    /\ result' = validateWorkflowExport(doc)
    /\ IF ~result'.valid
       THEN Exit(1)
       ELSE pc' = "structure-ok" /\ UNCHANGED exitCode
    /\ UNCHANGED <<utilVars, doc, registry, steps, outputDisplay, lastStep, checker,
                   index, declaredVars, errors, calls, script, content,
                   implementations, loaded>>

\* validate-workflow: the module paths are checked
OldValidateModulePaths ==
    /\ script = "validate-workflow"
    /\ pc = "structure-ok"
    /\ errors' = scriptValidateModulePaths(doc, registry)
    /\ IF Len(errors') > 0
       THEN Exit(1)
       ELSE pc' = "paths-ok" /\ UNCHANGED exitCode
    /\ UNCHANGED <<utilVars, doc, registry, steps, outputDisplay, lastStep, checker,
                   index, declaredVars, result, calls, script, content,
                   implementations, loaded>>

\* validate-workflow: the variable references are checked and printed as
\* warnings, then the summary; the script ends
OldValidateVariableReferences ==
    /\ script = "validate-workflow"
    /\ pc = "paths-ok"
    /\ errors' = scriptValidateVariableReferences(doc)
    /\ Exit(0)
    /\ UNCHANGED <<utilVars, doc, registry, steps, outputDisplay, lastStep, checker,
                   index, declaredVars, result, calls, script, content,
                   implementations, loaded>>

NextCli ==
    \/ NewParse
    \/ NewValidate
    \/ DeepVerifyStep
    \/ DeepVerifyReturn
    \/ NewAfterDeep
    \/ NewSummary
    \/ OldParse
    \/ OldValidateExport
    \/ OldValidateModulePaths
    \/ OldValidateVariableReferences

SpecCli == InitCli /\ [][NextCli]_vars

\* the document the running script parsed, if it could
ParsedDoc ==
    IF script = "validate-workflow-new" THEN parseNew(content)
    ELSE parseOld(content)

\* what the stages of validate-workflow-new report on the run's input
NewStructureFails ==
    IsSome(ParsedDoc) /\ ~validateWorkflowStructure(Get(ParsedDoc)).valid

NewCompleteFails ==
    IsSome(ParsedDoc) /\ ~validateWorkflowComplete(Get(ParsedDoc), registry).valid

NewDeepFails ==
    /\ IsSome(ParsedDoc)
    /\ ~NewCompleteFails
    /\ Len(validateModuleFunctions(Get(Get(ParsedDoc).config.steps),
                                   implementations)) > 0

\* what the stages of validate-workflow report on the run's input
OldStructureFails ==
    IsSome(ParsedDoc) /\ ~validateWorkflowExport(Get(ParsedDoc)).valid

OldPathsFail ==
    /\ IsSome(ParsedDoc)
    /\ ~OldStructureFails
    /\ Len(scriptValidateModulePaths(Get(ParsedDoc), registry)) > 0

OldVariablesFail ==
    /\ IsSome(ParsedDoc)
    /\ ~OldStructureFails
    /\ ~OldPathsFail
    /\ Len(scriptValidateVariableReferences(Get(ParsedDoc))) > 0

\* C15 as claimed: a run exits with status 0 only when structural,
\* capability-path and (where the script runs it) deep validation passed,
\* and with status 1 whenever a stage the script runs reports a failure:
\* parse, schema, capability-path, variable-reference, output-display or
\* deep verification.
C15_ExitStatus ==
    exitCode # None =>
        LET failure ==
                IF script = "validate-workflow-new"
                THEN ~IsSome(ParsedDoc) \/ NewCompleteFails \/ NewDeepFails
                ELSE \/ ~IsSome(ParsedDoc)
                     \/ OldStructureFails
                     \/ OldPathsFail
                     \/ OldVariablesFail
        IN  /\ exitCode = Some(0) => ~failure
            /\ failure => exitCode = Some(1)

\* C15 amended: validate-workflow-new exits with status 0 only when the
\* parse, validateWorkflowComplete (schema, capability-path,
\* variable-reference, output-display) and deep verification all passed,
\* and with status 1 whenever one of them reports a failure.
\* validate-workflow exits with status 1 when the parse, the structure
\* validation or the capability-path check fails; it prints
\* variable-reference failures as warnings and still exits with status 0,
\* and it runs no deep verification.
C15_ExitStatusByScript ==
    exitCode # None =>
        IF script = "validate-workflow-new"
        THEN LET failure ==
                     ~IsSome(ParsedDoc) \/ NewCompleteFails \/ NewDeepFails
             IN  /\ exitCode = Some(0) => ~failure
                 /\ failure => exitCode = Some(1)
        ELSE LET failure ==
                     ~IsSome(ParsedDoc) \/ OldStructureFails \/ OldPathsFail
             IN  /\ exitCode = Some(0) <=> ~failure
                 /\ failure <=> exitCode = Some(1)
                 /\ loaded = <<>>

\* validate-workflow-new on a document the validator accepts, with an
\* implementation that lacks the function: exit status 1
C15_Witness ==
    /\ script = "validate-workflow-new"
    /\ exitCode = Some(1)
    /\ IsSome(ParsedDoc)
    /\ ~NewStructureFails
    /\ ~NewCompleteFails
    /\ NewDeepFails
    /\ Len(loaded) > 0

\* C16: deep verification is started only after validateWorkflowComplete
\* returned valid = true: whenever a module has been loaded, the validator
\* accepted the document, and in a run where the schema, capability-path,
\* variable-reference or output-display pass reports, no module is ever
\* loaded.
C16_DeepAfterValid ==
    /\ pc = "deep" =>
           /\ result = validateWorkflowComplete(doc, registry)
           /\ result.valid
    /\ Len(loaded) > 0 =>
           /\ script = "validate-workflow-new"
           /\ validateWorkflowComplete(doc, registry).valid
    /\ (script = "validate-workflow-new" /\ NewCompleteFails) =>
           loaded = <<>>

\* a run of validate-workflow-new that ended on a variable-reference
\* diagnostic: the step's module, which would load, was not loaded
C16_Witness ==
    /\ script = "validate-workflow-new"
    /\ exitCode = Some(1)
    /\ result.valid = FALSE
    /\ HasKeyword(result.errors, "variable-declared")
    /\ ModuleLoads(Get(doc.config.steps)[1], implementations)
    /\ loaded = <<>>

-----------------------------------------------------------------------------
(* formatValidationErrors.  The light-bulb sign in front of a suggestion   *)
(* (U+1F4A1) is written [bulb].                                            *)

LightBulb == "[bulb]"

RECURSIVE formatEntriesFromZero(_, _)
\* fault variant: the entries are numbered with the forEach index itself
formatEntriesFromZero(errs, idx) ==
    IF idx >= Len(errs) THEN ""
    ELSE ToString(idx) \o ". " \o errs[idx + 1].path \o "\n"
         \o "   " \o errs[idx + 1].message \o "\n"
         \o (IF IsSome(errs[idx + 1].suggestion)
                /\ Get(errs[idx + 1].suggestion) # ""
             THEN "   " \o LightBulb \o " " \o Get(errs[idx + 1].suggestion)
                      \o "\n"
             ELSE "")
         \o "\n"
         \o formatEntriesFromZero(errs, idx + 1)

RECURSIVE formatEntries(_, _)
\* errors.forEach of formatValidationErrors from 0-based index idx on
formatEntries(errs, idx) ==
    IF idx >= Len(errs) THEN ""
    ELSE ToString(idx + 1) \o ". " \o errs[idx + 1].path \o "\n"
         \o "   " \o errs[idx + 1].message \o "\n"
         \o (IF IsSome(errs[idx + 1].suggestion)
                /\ Get(errs[idx + 1].suggestion) # ""
             THEN "   " \o LightBulb \o " " \o Get(errs[idx + 1].suggestion)
                      \o "\n"
             ELSE "")
         \o "\n"
         \o formatEntries(errs, idx + 1)

formatValidationErrors(errs) ==
    IF Len(errs) = 0 THEN ""
    ELSE "Validation Errors:\n\n" \o formatEntries(errs, 0)

\* diagnostics the validator produces: of the later passes, and of the
\* schema pass for violations of keywords formatAjvErrors has no case for
DiagnosticPool ==
    { variableError(0, "x"),
      tableColumnsError,
      formatAjvError(AjvError("additionalProperties", "/config",
                              "must NOT have additional properties",
                              << <<"additionalProperty", <<"extra">>>> >>)),
      formatAjvError(AjvError("regexp", "/config/steps", "", <<>>)),
      formatAjvError(AjvError("uniqueItemProperties", "/config/steps", "",
                              <<>>)) }

InitFormat ==
    /\ doc = NoDoc
    /\ registry = DefaultRegistry
    /\ steps = <<>>
    /\ outputDisplay = None
    /\ lastStep = None
    /\ pc = "idle"
    /\ checker = "none"
    /\ index = 0
    /\ declaredVars = {}
    /\ errors = <<>>
    /\ result = NoResult
    /\ NoRun

\* a caller renders a list of diagnostics
CallFormatValidationErrors ==
    /\ pc \in {"idle", "once"}
    /\ pc' = IF pc = "idle" THEN "once" ELSE "twice"
    /\ \E list \in ListsOf(DiagnosticPool, MaxFormatErrors) :
           /\ errors' = list
           /\ result' = formatValidationErrors(list)
           /\ calls' = Append(calls, [input |-> list,
                                      output |-> formatValidationErrors(list)])
    /\ UNCHANGED <<utilVars, doc, registry, steps, outputDisplay, lastStep, checker,
                   index, declaredVars, script, content, implementations,
                   loaded, exitCode>>

NextFormat == CallFormatValidationErrors

SpecFormat == InitFormat /\ [][NextFormat]_vars

\* C19 as claimed: the text formatValidationErrors renders holds every
\* field of each diagnostic (location, message, kind, suggestion when
\* present), so two lists of diagnostics that differ in any field render
\* to different texts.
C19_TextKeepsEveryField ==
    \A i, j \in 1..Len(calls) :
        calls[i].input # calls[j].input => calls[i].output # calls[j].output

\* what the text does keep: two lists whose diagnostics agree in location,
\* message and suggestion render to the same text, whatever their kinds
\* and params are; lists that differ in one of the three render to
\* different texts
Rendered(errs) ==
    [k \in 1..Len(errs) |->
        <<errs[k].path, errs[k].message, errs[k].suggestion>>]

C19_TextKeepsThreeFields ==
    \A i, j \in 1..Len(calls) :
        (Rendered(calls[i].input) = Rendered(calls[j].input))
            <=> (calls[i].output = calls[j].output)

-----------------------------------------------------------------------------
(* The schema pass on its own: formatAjvErrors on lists of violations, and *)
(* validateWorkflowStructure on parsed values.                             *)

\* one violation of each keyword formatAjvErrors has a case for, and one it
\* has none for
AjvErrorPool ==
    { RequiredError("", "name"),
      AjvTypeError("/config/steps", "array", "string"),
      AjvError("enum", "/trigger/type", "must be equal to one of the allowed values",
               << <<"allowedValues", <<"manual", "cron", "chat">>>> >>),
      AjvError("pattern", "/config/steps/0/module",
               "must match pattern \"" \o ModulePathPattern \o "\"",
               << <<"pattern", <<ModulePathPattern>>>> >>),
      AjvError("pattern", "/config/returnValue",
               "must match pattern \"" \o TemplatePattern \o "\"",
               << <<"pattern", <<TemplatePattern>>>> >>),
      AjvError("minItems", "/config/steps", "must NOT have fewer than 1 items",
               << <<"limit", <<"1">>>> >>),
      AjvError("minLength", "/name", "must NOT have fewer than 1 characters",
               << <<"limit", <<"1">>>> >>),
      AjvError("maxLength", "/name", "must NOT have more than 100 characters",
               << <<"limit", <<"100">>>> >>),
      AjvError("const", "/version", "must be equal to constant",
               << <<"allowedValue", <<"1.0">>>> >>),
      AjvError("format", "/metadata/created", "must match format \"date-time\"",
               << <<"format", <<"date-time">>>> >>) }

InitSchema ==
    /\ \/ /\ checker = "validateWorkflowStructure"
          /\ doc \in RawDocPool
          /\ errors = None
       \/ /\ checker = "formatAjvErrors"
          /\ doc = NoDoc
          /\ errors \in { None } \cup
                 { Some(l) : l \in ListsOf(AjvErrorPool, MaxAjvErrors) }
    /\ registry = DefaultRegistry
    /\ steps = <<>>
    /\ outputDisplay = None
    /\ lastStep = None
    /\ pc = "idle"
    /\ index = 0
    /\ declaredVars = {}
    /\ result = NoResult
    /\ NoRun

CallValidateWorkflowStructure ==
    /\ pc = "idle"
    /\ checker = "validateWorkflowStructure"
    /\ result' = validateWorkflowStructure(doc)
    /\ pc' = "done"
    /\ UNCHANGED <<utilVars, runVars, doc, registry, steps, outputDisplay, lastStep,
                   checker, index, declaredVars, errors>>

CallFormatAjvErrors ==
    /\ pc = "idle"
    /\ checker = "formatAjvErrors"
    /\ result' = formatAjvErrors(errors)
    /\ pc' = "done"
    /\ UNCHANGED <<utilVars, runVars, doc, registry, steps, outputDisplay, lastStep,
                   checker, index, declaredVars, errors>>

NextSchema == CallValidateWorkflowStructure \/ CallFormatAjvErrors

SpecSchema == InitSchema /\ [][NextSchema]_vars

\* C20: formatAjvErrors maps the list of violations one to one and in
\* order (none dropped, none merged, no stop at the first), so
\* validateWorkflowStructure returns exactly one diagnostic per violation
\* the schema validator found, and an empty list exactly when the document
\* is schema-valid.
C20_EveryViolationReported ==
    pc = "done" =>
        /\ checker = "formatAjvErrors" =>
               LET given == IF IsSome(errors) THEN Get(errors) ELSE <<>>
               IN  /\ Len(result) = Len(given)
                   /\ \A k \in 1..Len(given) :
                          /\ result[k].keyword = given[k].keyword
                          /\ result[k].params = Some(given[k].params)
                          /\ result[k].path =
                                 IF given[k].instancePath = "" THEN "root"
                                 ELSE given[k].instancePath
                          /\ result[k].message # ""
        /\ checker = "validateWorkflowStructure" =>
               LET violations == workflowSchemaErrors(doc)
               IN  /\ Len(result.errors) = Len(violations)
                   /\ \A k \in 1..Len(violations) :
                          result.errors[k].keyword = violations[k].keyword
                   /\ result.valid <=> (Len(violations) = 0)
                   /\ (Len(result.errors) = 0) <=> (Len(violations) = 0)

\* a document without name whose first step lacks inputs and whose second
\* step lacks module: three violations, three diagnostics
C20_Witness ==
    /\ pc = "done"
    /\ checker = "validateWorkflowStructure"
    /\ Len(workflowSchemaErrors(doc)) = 3
    /\ result.valid = FALSE
    /\ Len(result.errors) = 3
    /\ result.errors[1].path = "root"
    /\ result.errors[2].path = "/config/steps/0"
    /\ result.errors[3].path = "/config/steps/1"

-----------------------------------------------------------------------------
(* The library's variable-reference walk on step lists that exercise the   *)
(* reference grammar: each form of reference, references nested in objects *)
(* and arrays, repeated references, and outputAs values that are empty.    *)

MaxGrammarSteps == 2

\* the inputs of the consumers: one reference form each
GrammarInputs ==
    { << <<"p", "{{a}}">> >>,
      << <<"p", "{{a.b}}">> >>,
      << <<"p", "{{a[0]}}">> >>,
      << <<"p", "{{a.b[0]}}">> >>,
      << <<"p", "{{a[0].b}}">> >>,
      << <<"o", "object", << <<"q", "{{n.x}}">> >> >>,
         <<"l", "array", <<"{{m}}", "t">> >> >>,
      << <<"p", "{{x}} {{x}} {{user.id}}">>, <<"q", "{{y}} and {{x[1]}}">> >> }

\* consumers without outputAs, and producers of a, of x and of the empty name
GrammarSteps ==
    { Step("", "ai.openai.generateText", i, None) : i \in GrammarInputs }
    \cup { Step("", "ai.openai.generateText", PlainInputs, o) :
             o \in { Some("a"), Some("x"), Some("") } }

InitGrammar ==
    /\ doc = NoDoc
    /\ registry = DefaultRegistry
    /\ steps \in { WithIds(l) : l \in ListsOf(GrammarSteps, MaxGrammarSteps) }
    /\ outputDisplay = None
    /\ lastStep = None
    /\ pc = "idle"
    /\ checker = "none"
    /\ index = 0
    /\ declaredVars = {}
    /\ errors = <<>>
    /\ result = NoResult
    /\ NoRun

NextGrammar ==
    \/ StartLibraryWalk
    \/ LibraryWalkStep
    \/ LibraryWalkReturn

SpecGrammar == InitGrammar /\ [][NextGrammar]_vars

\* the truthy outputAs names of the first n steps
OutputNames(stepList, n) ==
    { Get(stepList[j].outputAs) :
        j \in { k \in 1..n : /\ IsSome(stepList[k].outputAs)
                             /\ Get(stepList[k].outputAs) # "" } }

\* C21: when step i's inputs are checked, declaredVars is {user, trigger}
\* united with the non-empty outputAs names of the steps 0..i-1; and every
\* step of the walk leaves declaredVars a superset of what it was.
C21_ScopeInvariant ==
    /\ []((pc = "walk" /\ checker = "library") =>
              declaredVars = {"user", "trigger"} \cup OutputNames(steps, index))
    /\ [][declaredVars \subseteq declaredVars']_vars

\* the walk stands before the second step, after a first step that bound a
\* name; or after a first step whose outputAs is the empty string
C21_Witness ==
    /\ pc = "walk"
    /\ checker = "library"
    /\ index = 1
    /\ Len(steps) = 2
    /\ steps[1].outputAs = Some("a")
    /\ declaredVars = {"user", "trigger", "a"}

RECURSIVE SkipAccesses(_, _)
\* the position after the longest run, from p, of dotted property accesses
\* and bracketed numeric indices in any order
SkipAccesses(s, p) ==
    IF StartsWithAt(s, p, ".") /\ SkipWord(s, p + 1) > p + 1
    THEN SkipAccesses(s, SkipWord(s, p + 1))
    ELSE IF /\ StartsWithAt(s, p, "[")
            /\ SkipDigits(s, p + 1) > p + 1
            /\ StartsWithAt(s, SkipDigits(s, p + 1), "]")
         THEN SkipAccesses(s, SkipDigits(s, p + 1) + 1)
         ELSE p

\* whether a reference of the grammar "identifier, then any combination of
\* property accesses and indices, between {{ and }}" starts at p: the
\* position after it, or 0
GrammarRefAt(s, p) ==
    IF ~StartsWithAt(s, p, "{{") THEN 0
    ELSE LET w == SkipWord(s, p + 2)
         IN  IF w = p + 2 THEN 0
             ELSE IF StartsWithAt(s, SkipAccesses(s, w), "}}")
                  THEN SkipAccesses(s, w) + 2
                  ELSE 0

\* the root identifiers of the references of that grammar in s
GrammarRoots(s) ==
    { SubSeq(s, p + 2, SkipWord(s, p + 2) - 1) :
        p \in { q \in 1..Len(s) : GrammarRefAt(s, q) > 0 } }

\* C22: every reference of a step's inputs made of an identifier followed by
\* any combination of property accesses and numeric indices, at any nesting
\* depth, whose root is not bound when the step is checked, gets an
\* unbound-variable diagnostic for that step.
C22_GrammarCoverage ==
    (pc = "done" /\ checker = "library") =>
        \A k \in 1..Len(steps) :
            \A v \in GrammarRoots(JsonStringify(steps[k].inputs)) :
                v \notin ({"user", "trigger"} \cup OutputNames(steps, k - 1))
                    => HasUnboundDiagnostic(result.errors, k - 1, v)

\* C22 for the references the regular expression does cover: accesses first,
\* indices last
C22_AccessesBeforeIndices ==
    (pc = "done" /\ checker = "library") =>
        \A k \in 1..Len(steps) :
            \A v \in GrammarRoots(JsonStringify(steps[k].inputs)) :
                ( /\ v \notin ({"user", "trigger"} \cup OutputNames(steps, k - 1))
                  /\ steps[k].inputs # << <<"p", "{{a[0].b}}">> >> )
                    => HasUnboundDiagnostic(result.errors, k - 1, v)

\* a reference nested in an object and one in an array are both reported
C22_NestedWitness ==
    /\ pc = "done"
    /\ checker = "library"
    /\ Len(steps) = 1
    /\ GrammarRoots(JsonStringify(steps[1].inputs)) = {"n", "m"}
    /\ HasUnboundDiagnostic(result.errors, 0, "n")
    /\ HasUnboundDiagnostic(result.errors, 0, "m")

\* the 1-based positions of the diagnostics addressed to the step at the
\* 0-based position idx
AddressedTo(errs, idx) ==
    { e \in 1..Len(errs) :
        errs[e].path = "/config/steps/" \o ToString(idx) \o "/inputs" }

\* the 1-based positions of the matched reference occurrences of a step's
\* serialized inputs whose root identifier is not in bound
UnboundOccurrences(step, bound) ==
    LET refs == MatchAllRefs(JsonStringify(step.inputs))
    IN  { r \in 1..Len(refs) : Get(FirstVarName(refs[r])) \notin bound }

\* C23: validateVariableReferences returns, for every step k, as many
\* diagnostics as step k's serialized inputs hold matched reference
\* occurrences with a root unbound at step k (repeated references each
\* count), and the diagnostics of a step precede those of every later step.
C23_PerOccurrenceInStepOrder ==
    (pc = "done" /\ checker = "library") =>
        /\ \A k \in 1..Len(steps) :
               Cardinality(AddressedTo(result.errors, k - 1)) =
                   Cardinality(UnboundOccurrences(steps[k],
                       {"user", "trigger"} \cup OutputNames(steps, k - 1)))
        /\ \A k \in 1..Len(steps) : \A later \in (k + 1)..Len(steps) :
               \A e \in AddressedTo(result.errors, k - 1) :
                   \A f \in AddressedTo(result.errors, later - 1) : e < f
        /\ Len(result.errors) =
               Cardinality(UNION { AddressedTo(result.errors, k - 1) :
                                     k \in 1..Len(steps) })

\* the first step references the unbound x three times and the unbound y
\* once: four diagnostics, then the one of the second step
C23_Witness ==
    /\ pc = "done"
    /\ checker = "library"
    /\ Len(steps) = 2
    /\ Cardinality(UnboundOccurrences(steps[1], {"user", "trigger"})) = 4
    /\ Len(result.errors) = 5
    /\ AddressedTo(result.errors, 0) = 1..4
    /\ result.errors[1].message = "Reference to undeclared variable: x"
    /\ result.errors[2].message = "Reference to undeclared variable: x"
    /\ result.errors[3].message = "Reference to undeclared variable: y"
    /\ result.errors[4].message = "Reference to undeclared variable: x"
    /\ AddressedTo(result.errors, 1) = {5}

-----------------------------------------------------------------------------

\* the keywords of a list of diagnostics, in order
KeywordsOf(errs) == [k \in 1..Len(errs) |-> errs[k].keyword]

\* whether the last step's path contains a scalar-producing fragment
ScalarLastStep(last) ==
    IsSome(last) /\ \E f \in ScalarFragments : StrIncludes(Get(last).module, f)

\* what the two independent checks give for a table
IndependentChecks(od, last) ==
    (IF ColumnsMissingOrEmpty(od) THEN <<"table-columns">> ELSE <<>>)
    \o (IF ScalarLastStep(last) THEN <<"output-type-mismatch">> ELSE <<>>)

\* C24 as claimed: no diagnostic for an outputDisplay that is no table; for
\* a table the table-columns check and the type-mismatch check each fire
\* on their own condition, the table-columns diagnostic first, and valid is
\* true exactly when neither fires.
C24_ChecksIndependent ==
    (pc = "done" /\ IsSome(outputDisplay)) =>
        /\ KeywordsOf(result.errors) =
               IF Get(outputDisplay).type = "table"
               THEN IndependentChecks(Get(outputDisplay), lastStep)
               ELSE <<>>
        /\ result.valid <=> (Len(result.errors) = 0)

\* C24 amended: the same when a last step is given; without a last step
\* neither check runs and the result is valid.
C24_ChecksIndependentWithLastStep ==
    (pc = "done" /\ IsSome(outputDisplay)) =>
        /\ KeywordsOf(result.errors) =
               IF Get(outputDisplay).type = "table" /\ IsSome(lastStep)
               THEN IndependentChecks(Get(outputDisplay), lastStep)
               ELSE <<>>
        /\ result.valid <=> (Len(result.errors) = 0)

\* a table without columns after a scalar-producing last step: both
\* diagnostics, the table-columns one first
C24_Witness ==
    /\ pc = "done"
    /\ IsSome(outputDisplay)
    /\ Get(outputDisplay).type = "table"
    /\ ~IsSome(Get(outputDisplay).columns)
    /\ lastStep = Some([id |-> "s1", module |-> "utilities.math.count"])
    /\ result.valid = FALSE
    /\ KeywordsOf(result.errors) = <<"table-columns", "output-type-mismatch">>

-----------------------------------------------------------------------------

\* the lines of the entry of the k-th diagnostic: location, message, the
\* suggestion if there is one, and a blank line
EntryLines(errs, k) ==
    << ToString(k) \o ". " \o errs[k].path, "   " \o errs[k].message >>
    \o (IF IsSome(errs[k].suggestion)
        THEN << "   " \o LightBulb \o " " \o Get(errs[k].suggestion) >>
        ELSE <<>>)
    \o << "" >>

\* the lines of the entries of the first n diagnostics
ReportLines(errs, n) ==
    LET upTo[k \in 0..n] ==
            IF k = 0 THEN <<>> ELSE upTo[k - 1] \o EntryLines(errs, k)
    IN  upTo[n]

\* C25: formatValidationErrors renders the empty list as the empty string,
\* and a non-empty list as the header line and a blank line followed by one
\* entry per diagnostic in input order, numbered from 1: the location line,
\* the indented message line, the indented suggestion line exactly when the
\* diagnostic has a suggestion, and one blank line; every line ends with a
\* line feed.
C25_ReportLayout ==
    pc \in {"once", "twice"} =>
        IF Len(errors) = 0 THEN result = ""
        ELSE result =
                 StrJoin(<< "Validation Errors:", "" >>
                             \o ReportLines(errors, Len(errors)), "\n")
                 \o "\n"

\* a diagnostic with a suggestion, then one without
C25_Witness ==
    /\ pc = "once"
    /\ errors = << variableError(0, "x"),
                   formatAjvError(AjvError("regexp", "/config/steps", "", <<>>)) >>
    /\ result = "Validation Errors:\n\n"
                   \o "1. /config/steps/0/inputs\n"
                   \o "   Reference to undeclared variable: x\n"
                   \o "   [bulb] Declare \"x\" in a previous step using \"outputAs\", or check for typos\n"
                   \o "\n"
                   \o "2. /config/steps\n"
                   \o "   Validation failed\n"
                   \o "\n"

-----------------------------------------------------------------------------

\* whether the library's k-th diagnostic and the script's k-th message flag
\* the same reference: the same step and the same variable
SameOccurrence(libraryError, scriptMessage, stepList) ==
    \E i \in 1..Len(stepList) : \E v \in RefNames(stepList[i]) :
        /\ libraryError = variableError(i - 1, v)
        /\ scriptMessage = scriptVariableError(i - 1, stepList[i].id, v)

\* C26: for every step list, the script's validateVariableReferences and
\* the library's validateVariableReferences flag the same (step, variable)
\* reference occurrences as undeclared, in the same order.
C26_CheckersAgree ==
    pc = "done" =>
        LET libraryErrors == IF checker = "library" THEN result.errors
                             ELSE validateVariableReferences(steps).errors
            scriptMessages == IF checker = "script" THEN result
                              ELSE scriptVariableWalk(steps, 0, {})
        IN  /\ Len(libraryErrors) = Len(scriptMessages)
            /\ \A k \in 1..Len(libraryErrors) :
                   SameOccurrence(libraryErrors[k], scriptMessages[k], steps)

\* the two checkers do agree on the step lists that do not reference
\* trigger
C26_AgreeWithoutTrigger ==
    (pc = "done" /\ \A i \in 1..Len(steps) : "trigger" \notin RefNames(steps[i]))
        => C26_CheckersAgree

-----------------------------------------------------------------------------

\* C27: validate-workflow-new, given a JSON text that contains "undefined"
\* anywhere (a string value of a well-formed document included), exits with
\* status 1 at the parse step: no document is parsed and
\* validateWorkflowComplete is never called.  Given a YAML text the search
\* is not made: a YAML text that contains "undefined" is parsed and
\* validated.
C27_UndefinedRejectedInJson ==
    (script = "validate-workflow-new" /\ StrIncludes(content.text, "undefined")
         /\ pc # "start") =>
        IF content.isYaml
        THEN IsSome(content.parsed) =>
                 /\ doc = Get(content.parsed)
                 /\ pc = "deep" =>
                        result = validateWorkflowComplete(doc, registry)
        ELSE /\ pc = "exited"
             /\ exitCode = Some(1)
             /\ doc = NoDoc
             /\ result = NoResult
             /\ loaded = <<>>

\* the JSON text of a well-formed document named "undefined" is rejected
C27_Witness ==
    /\ script = "validate-workflow-new"
    /\ ~content.isYaml
    /\ content.parsed =
           Some(Workflow(Some("undefined"), None, Some(WithIds(<<CleanStep>>)),
                         None))
    /\ StrIncludes(content.text, "\"name\":\"undefined\"")
    /\ pc = "exited"
    /\ exitCode = Some(1)
    /\ doc = NoDoc

\* the YAML text of the same document is parsed and validated
C27_YamlWitness ==
    /\ script = "validate-workflow-new"
    /\ content.isYaml
    /\ StrIncludes(content.text, "undefined")
    /\ doc = Workflow(Some("undefined"), None, Some(WithIds(<<CleanStep>>)), None)
    /\ pc = "deep"
    /\ result.valid

-----------------------------------------------------------------------------
(* retry(fn, maxAttempts, delayMs) of src/unnamed/part_004.  fn is an      *)
(* asynchronous function whose every invocation settles: it resolves with  *)
(* a value or rejects with an Error or with another thrown value.          *)

MaxAttempts == 3

DelayPool == {0, 1, 1000}

\* how an invocation of fn can settle; a rejection carries the message of
\* the Error, or the thrown value that String() turns into the message
OutcomePool ==
    { [ok |-> TRUE, value |-> "v1"], [ok |-> TRUE, value |-> "v2"],
      [ok |-> FALSE, isError |-> TRUE, text |-> "boom"],
      [ok |-> FALSE, isError |-> TRUE, text |-> "timeout"],
      [ok |-> FALSE, isError |-> FALSE, text |-> "oops"] }

RECURSIVE Pow2(_)
\* Math.pow(2, n) for a natural n
Pow2(n) == IF n = 0 THEN 1 ELSE 2 * Pow2(n - 1)

\* fault variant: the loop stops one attempt early
loopContinuesBelow(n, max) == n < max

\* the loop test: attempt <= maxAttempts
loopContinues(n, max) == n <= max

\* fault variant: the delay stays delayMs
backoffDelayConstant(delay, n) == delay

\* delayMs * Math.pow(2, attempt - 1)
backoffDelay(delay, n) == delay * Pow2(n - 1)

\* error instanceof Error ? error : new Error(String(error)): its message
caughtMessage(outcome) == outcome.text

\* the Error thrown after the loop
failedAfter(max, last) ==
    [thrown |-> "Failed after " \o ToString(max) \o " attempts: "
                    \o (IF IsSome(last) THEN Get(last) ELSE "undefined")]

InitRetry ==
    /\ doc = NoDoc
    /\ registry = DefaultRegistry
    /\ steps = <<>>
    /\ outputDisplay = None
    /\ lastStep = None
    /\ pc = "loop"
    /\ checker = "none"
    /\ index = 0
    /\ declaredVars = {}
    /\ errors = <<>>
    /\ result = NoResult
    /\ calls = <<>>
    /\ script = "none"
    /\ content = NoContent
    /\ implementations = <<>>
    /\ loaded = <<>>
    /\ exitCode = None
    /\ maxAttempts \in 0..MaxAttempts
    /\ delayMs \in DelayPool
    /\ attempt = 1
    /\ lastError = None
    /\ invocations = <<>>
    /\ sleeps = <<>>
    /\ items = <<>>
    /\ fields = <<>>

retryUnchanged ==
    UNCHANGED <<doc, registry, steps, outputDisplay, lastStep, checker, index,
                declaredVars, errors, runVars, maxAttempts, delayMs, items,
                fields>>

\* the loop test passes and fn is invoked
RetryInvoke ==
    /\ pc = "loop"
    /\ loopContinues(attempt, maxAttempts)
    /\ pc' = "calling"
    /\ UNCHANGED <<result, attempt, lastError, invocations, sleeps>>
    /\ retryUnchanged

\* fn resolves: retry returns its result
FnResolves ==
    /\ pc = "calling"
    /\ \E outcome \in { o \in OutcomePool : o.ok } :
           /\ invocations' = Append(invocations, outcome)
           /\ result' = [returned |-> outcome.value]
    /\ pc' = "returned"
    /\ UNCHANGED <<attempt, lastError, sleeps>>
    /\ retryUnchanged

\* fn rejects: the error is kept, and sleep is called unless this was the
\* last attempt
FnRejects ==
    /\ pc = "calling"
    /\ \E outcome \in { o \in OutcomePool : ~o.ok } :
           /\ invocations' = Append(invocations, outcome)
           /\ lastError' = Some(caughtMessage(outcome))
    /\ IF attempt < maxAttempts
       THEN /\ sleeps' = Append(sleeps, backoffDelay(delayMs, attempt))
            /\ pc' = "sleeping"
            /\ UNCHANGED attempt
       ELSE /\ attempt' = attempt + 1
            /\ pc' = "loop"
            /\ UNCHANGED sleeps
    /\ UNCHANGED result
    /\ retryUnchanged

\* the timer of sleep fires and the loop goes on
SleepCompleted ==
    /\ pc = "sleeping"
    /\ attempt' = attempt + 1
    /\ pc' = "loop"
    /\ UNCHANGED <<result, lastError, invocations, sleeps>>
    /\ retryUnchanged

\* the loop test fails: retry throws
RetryThrows ==
    /\ pc = "loop"
    /\ ~loopContinues(attempt, maxAttempts)
    /\ result' = failedAfter(maxAttempts, lastError)
    /\ pc' = "thrown"
    /\ UNCHANGED <<attempt, lastError, invocations, sleeps>>
    /\ retryUnchanged

NextRetry ==
    \/ RetryInvoke
    \/ FnResolves
    \/ FnRejects
    \/ SleepCompleted
    \/ RetryThrows

SpecRetry == InitRetry /\ [][NextRetry]_vars

\* every invocation of fn settles and every timer fires
SpecRetryFair == SpecRetry /\ WF_vars(NextRetry)

\* whether the first n invocations all rejected
AllRejected(n) == \A k \in 1..n : ~invocations[k].ok

\* what holds of retry at every moment: fn was invoked at most maxAttempts
\* times; only the last invocation can have resolved, and then retry has
\* returned its value; retry has thrown only after maxAttempts rejected
\* invocations, with the attempt count and the last message
RetrySafe ==
    /\ Len(invocations) <= maxAttempts
    /\ AllRejected(Len(invocations) - 1)
    /\ (Len(invocations) > 0 /\ invocations[Len(invocations)].ok) =>
           /\ pc = "returned"
           /\ result = [returned |-> invocations[Len(invocations)].value]
    /\ pc = "returned" =>
           (Len(invocations) > 0 /\ invocations[Len(invocations)].ok)
    /\ pc = "thrown" =>
           /\ Len(invocations) = maxAttempts
           /\ AllRejected(maxAttempts)
           /\ maxAttempts > 0 =>
                  result = [thrown |->
                      "Failed after " \o ToString(maxAttempts) \o " attempts: "
                          \o invocations[maxAttempts].text]

\* C28: retry invokes fn one invocation at a time, at most maxAttempts
\* times; it returns the result of the first invocation that resolves and
\* invokes fn no more; when all maxAttempts invocations reject it throws an
\* error with the attempt count and the last rejection's message; and, every
\* invocation settling, it ends by returning or throwing.
C28_RetryContract ==
    /\ []RetrySafe
    /\ <>(pc \in {"returned", "thrown"})
    /\ [](AllRejected(Len(invocations)) /\ Len(invocations) = maxAttempts
              => <>(pc = "thrown"))

\* two rejections, then the third invocation resolves and is returned
C28_Witness ==
    /\ pc = "returned"
    /\ maxAttempts = 3
    /\ Len(invocations) = 3
    /\ ~invocations[1].ok
    /\ ~invocations[2].ok
    /\ invocations[3] = [ok |-> TRUE, value |-> "v2"]
    /\ result = [returned |-> "v2"]

\* three rejections of three attempts: retry throws with the last message
C28_ThrowWitness ==
    /\ pc = "thrown"
    /\ maxAttempts = 3
    /\ Len(invocations) = 3
    /\ invocations[2].text = "boom"
    /\ invocations[3].text = "oops"
    /\ result = [thrown |-> "Failed after 3 attempts: oops"]

\* C29: the n-th sleep lasts delayMs * 2^(n-1); sleep is called once for
\* every rejected attempt n with n < maxAttempts and never after the last
\* attempt nor after an attempt that resolved.
C29_BackoffSchedule ==
    /\ \A n \in 1..Len(sleeps) : sleeps[n] = delayMs * 2^(n - 1)
    /\ Len(sleeps) =
           Cardinality({ n \in 1..Len(invocations) :
                           ~invocations[n].ok /\ n < maxAttempts })
    /\ pc \in {"returned", "thrown"} =>
           Len(sleeps) = IF Len(invocations) = 0 THEN 0
                         ELSE Len(invocations) - 1

\* three rejected attempts of three: two sleeps, of 1000 and 2000
C29_Witness ==
    /\ pc = "thrown"
    /\ maxAttempts = 3
    /\ delayMs = 1000
    /\ Len(invocations) = 3
    /\ sleeps = <<1000, 2000>>

-----------------------------------------------------------------------------
(* deduplicateByMultiple({items, fields}) of src/unnamed/part_003.  An     *)
(* item is a record of the properties a and b; a value is a string, a      *)
(* number, null, or undefined for a property the item does not have.       *)

MaxItems == 2

Str(s) == [type |-> "string", value |-> s]
Num(n) == [type |-> "number", number |-> n]
Null == [type |-> "null"]
Undefined == [type |-> "undefined"]

ItemPool ==
    { [a |-> Str("x"), b |-> Str("y")],
      [a |-> Str("x"), b |-> Str("z")],
      [a |-> Str("x|y"), b |-> Str("z")],
      [a |-> Str("x"), b |-> Str("y|z")],
      [a |-> Num(1), b |-> Str("y")],
      [a |-> Str("1"), b |-> Str("y")],
      [a |-> Null, b |-> Str("y")],
      [a |-> Undefined, b |-> Str("y")],
      [a |-> Str("null"), b |-> Str("y")] }

FieldsPool == { <<>>, <<"a">>, <<"b">>, <<"a", "b">> }

\* value === null || value === undefined ? 'null' : String(value)
keyPart(value) ==
    IF value.type \in {"null", "undefined"} THEN "null"
    ELSE IF value.type = "number" THEN ToString(value.number)
    ELSE value.value

\* fields.map(...).join('|')
compositeKey(item, fieldList) ==
    StrJoin([k \in 1..Len(fieldList) |-> keyPart(item[fieldList[k]])], "|")

RECURSIVE uniqueFrom(_, _, _)
\* the for loop over items: the items pushed to unique from the list on,
\* seen being the keys added so far
uniqueFrom(list, fieldList, seen) ==
    IF Len(list) = 0 THEN <<>>
    ELSE LET key == compositeKey(Head(list), fieldList)
         IN  IF key \notin seen
             THEN <<Head(list)>>
                      \o uniqueFrom(Tail(list), fieldList, seen \cup {key})
             ELSE uniqueFrom(Tail(list), fieldList, seen)

deduplicateByMultiple(list, fieldList) ==
    IF Len(list) = 0 THEN [returned |-> <<>>]
    ELSE IF Len(fieldList) = 0
         THEN [thrown |->
                  "At least one field must be specified for deduplication"]
         ELSE [returned |-> uniqueFrom(list, fieldList, {})]

InitDeduplicate ==
    /\ doc = NoDoc
    /\ registry = DefaultRegistry
    /\ steps = <<>>
    /\ outputDisplay = None
    /\ lastStep = None
    /\ pc = "idle"
    /\ checker = "none"
    /\ index = 0
    /\ declaredVars = {}
    /\ errors = <<>>
    /\ result = NoResult
    /\ calls = <<>>
    /\ script = "none"
    /\ content = NoContent
    /\ implementations = <<>>
    /\ loaded = <<>>
    /\ exitCode = None
    /\ maxAttempts = 0
    /\ delayMs = 0
    /\ attempt = 0
    /\ lastError = None
    /\ invocations = <<>>
    /\ sleeps = <<>>
    /\ items \in ListsOf(ItemPool, MaxItems)
    /\ fields \in FieldsPool

CallDeduplicateByMultiple ==
    /\ pc = "idle"
    /\ result' = deduplicateByMultiple(items, fields)
    /\ pc' = "done"
    /\ UNCHANGED <<utilVars, runVars, doc, registry, steps, outputDisplay,
                   lastStep, checker, index, declaredVars, errors>>

NextDeduplicate == CallDeduplicateByMultiple

SpecDeduplicate == InitDeduplicate /\ [][NextDeduplicate]_vars

\* whether two values are equal; null and a missing property are taken to
\* be the same value
SameValue(v, w) ==
    \/ v = w
    \/ v.type \in {"null", "undefined"} /\ w.type \in {"null", "undefined"}

\* whether two items have equal values for every listed field
MatchOnAll(item, other, fieldList) ==
    \A k \in 1..Len(fieldList) :
        SameValue(item[fieldList[k]], other[fieldList[k]])

\* the positions of the items that no earlier item matches on every field
FirstOccurrences(list, fieldList) ==
    { i \in 1..Len(list) :
        \A j \in 1..(i - 1) : ~MatchOnAll(list[j], list[i], fieldList) }

\* the items at a set of positions, in the order of the list
ItemsAt(list, positions) ==
    LET upTo[n \in 0..Len(list)] ==
            IF n = 0 THEN <<>>
            ELSE upTo[n - 1] \o (IF n \in positions THEN <<list[n]>> ELSE <<>>)
    IN  upTo[Len(list)]

\* C30: for a non-empty list of fields deduplicateByMultiple returns, in
\* the order of items, exactly the items that no earlier item matches on
\* every listed field: two items are collapsed exactly when their values
\* are equal for all listed fields, and the first of them is kept.
C30_CollapsesExactlyEqualItems ==
    (pc = "done" /\ Len(fields) > 0) =>
        result = [returned |-> ItemsAt(items, FirstOccurrences(items, fields))]

\* what does hold: items that match on every listed field are collapsed
\* into the first of them, and the result keeps the order of items
C30_EqualItemsCollapsed ==
    (pc = "done" /\ Len(fields) > 0) =>
        \E kept \in SUBSET FirstOccurrences(items, fields) :
            result = [returned |-> ItemsAt(items, kept)]

====
